---- MODULE Spec2Model ----
(***************************************************************************)
(* Model of the buyer-side computations of bloom-local-prices:             *)
(*   - AveragePricePanel: normalizeProductName and fetchAveragePrices      *)
(*   - BuyerDashboard: calculateDistance, fetchShops, getUserLocation      *)
(*   - ShopCard: the distance badge                                        *)
(*   - ShopForm and ProductForm: handleSubmit with its zod schema          *)
(*   - the row level security policies of the products storage bucket      *)
(* Strings are sequences of one-character strings.  Numbers are integers:  *)
(* prices are whole currency units, an average is the exact quotient       *)
(* total/count kept as a reduced fraction <<numerator, denominator>>, and  *)
(* distances are kilometres computed in fixed point and kept with three    *)
(* decimals, so that 1000 stands for 1 km.                                 *)
(***************************************************************************)
EXTENDS Integers, Sequences, FiniteSets, TLC

VARIABLES
    dbProducts,     \* rows of the products table (name, category, price)
    pcPanel,        \* position of AveragePricePanel's fetchAveragePrices
    products,       \* `products`: the rows the select returned (<<>> before that)
    averagePrices,  \* AveragePricePanel state averagePrices
    loading,        \* AveragePricePanel state loading
    errorLogged,    \* console.error was called by the catch block
    nameIn,         \* argument of normalizeProductName
    nameOnce,       \* normalizeProductName(nameIn)
    nameTwice,      \* normalizeProductName(nameOnce)
    pcNorm,         \* how often normalizeProductName has been applied
    dbShops,        \* rows of the shops table
    userLocation,   \* the userLocation value fetchShops reads
    pcShops,        \* position of BuyerDashboard's fetchShops
    shops,          \* BuyerDashboard state shops
    shopsLoading,   \* BuyerDashboard state loading
    shopsToast,     \* the "Error loading shops" toast was shown
    calls,          \* invocations of fetchAveragePrices or fetchShops, oldest first
    shopsData,      \* `data`: the rows the shops select returned last
    cards,          \* the ShopCards on screen, in order, each with its badge
    closureLocation,\* userLocation as bound in the render that ran the mount effect
    geoPending,     \* getCurrentPosition requests not answered yet
    locationToast,  \* the "Location access denied" toast was shown
    shopForm,       \* ShopForm state formData
    pcShopForm,     \* position of ShopForm's handleSubmit
    shopWrites,     \* rows ShopForm sent to the shops table
    shopSaved,      \* times ShopForm called onSaved
    productForm,    \* ProductForm state formData
    pcProductForm,  \* position of ProductForm's handleSubmit
    productWrites,  \* rows ProductForm sent to the products table
    productSaved,   \* times ProductForm called onSaved
    objects,        \* storage.objects rows of the products bucket
    storageOp,      \* the last statement run against storage.objects
    shopsTable,     \* rows of the shops table (id, seller_id, shop_name)
    productsTable,  \* rows of the products table (id, shop_id)
    productsOp,     \* the last statement run against the products table
    authStore,      \* the session the supabase client holds
    profilesTable,  \* rows of the profiles table (id, role)
    ctxUser,        \* AuthProvider state user
    ctxSession,     \* AuthProvider state session
    userRole,       \* AuthProvider state userRole
    authLoading,    \* AuthProvider state loading
    lookups,        \* role lookups of AuthProvider that have not resolved
    pcSignOut,      \* position of AuthProvider's signOut
    signUp,         \* position and chosen role of Auth's handleSignUp
    route,          \* the page the router shows
    pcGetSession,   \* whether getSession() has resolved
    reviewsTable,   \* rows of the reviews table of one shop
    reviewForm,     \* ReviewForm state rating and comment
    pcReview,       \* position of ReviewForm's handleSubmit
    reviewDone,     \* how the last handleSubmit of ReviewForm ended
    ratingFetches,  \* fetchReviews calls of ShopCard that have not returned
    averageRating,  \* ShopCard state averageRating
    reviewCount,    \* ShopCard state reviewCount
    sinceSave,      \* the ratings statistics the table has had since the last save
    sellerProducts, \* products rows of the seller's shop (id, name)
    deletedProducts,\* how many products rows of the shop were deleted
    productDialogOpen, \* SellerDashboard state productDialogOpen
    pcAddProduct,   \* position of handleSubmit in the Add Product dialog
    listProducts,   \* ProductList state products
    editingProduct, \* ProductList state editingProduct
    listDialogOpen, \* ProductList state dialogOpen
    listFetches,    \* fetchProducts calls of ProductList that have not returned
    lastAdded,      \* id of the product the Add Product dialog saved last, 0 if none
    uploadForm,     \* ProductForm state formData, field by field
    imagePreview,   \* ProductForm state imagePreview
    uploads,        \* handleImageUpload calls that have not returned
    uploadEvent,    \* the handler of ProductForm that ran last, and how it ended
    hasGeolocation, \* navigator.geolocation exists
    locationLoading,\* ShopForm state locationLoading
    positionPending,\* a getCurrentPosition request of ShopForm has not called back
    locationEvent   \* the toast getCurrentLocation showed last

vars == <<dbProducts, pcPanel, products, averagePrices, loading, errorLogged,
          nameIn, nameOnce, nameTwice, pcNorm,
          dbShops, userLocation, pcShops, shops, shopsLoading, shopsToast,
          calls, shopsData, cards, closureLocation, geoPending, locationToast,
          shopForm, pcShopForm, shopWrites, shopSaved,
          productForm, pcProductForm, productWrites, productSaved,
          objects, storageOp,
          shopsTable, productsTable, productsOp,
          authStore, profilesTable, ctxUser, ctxSession, userRole,
          authLoading, lookups, pcSignOut, signUp, route, pcGetSession,
          reviewsTable, reviewForm, pcReview, reviewDone, ratingFetches,
          averageRating, reviewCount, sinceSave,
          sellerProducts, deletedProducts, productDialogOpen, pcAddProduct,
          listProducts, editingProduct, listDialogOpen, listFetches,
          lastAdded, uploadForm, imagePreview, uploads, uploadEvent,
          hasGeolocation, locationLoading, positionPending, locationEvent>>

panelVars == <<dbProducts, pcPanel, products, averagePrices, loading, errorLogged>>
normVars == <<nameIn, nameOnce, nameTwice, pcNorm>>
shopVars == <<dbShops, userLocation, pcShops, shops, shopsLoading, shopsToast>>
callVars == <<calls, shopsData>>
cardVars == <<cards>>
geoVars == <<closureLocation, geoPending, locationToast>>
shopFormVars == <<shopForm, pcShopForm, shopWrites, shopSaved>>
productFormVars == <<productForm, pcProductForm, productWrites, productSaved>>
storageVars == <<objects, storageOp>>
formVars == <<shopFormVars, productFormVars, storageVars>>
viewVars == <<callVars, cardVars, geoVars>>
otherVars == <<panelVars, normVars, shopVars, viewVars, formVars>>
rlsVars == <<shopsTable, productsTable, productsOp>>
authVars == <<authStore, profilesTable, ctxUser, ctxSession, userRole,
              authLoading, lookups, pcSignOut, signUp, route, pcGetSession>>
reviewVars == <<reviewsTable, reviewForm, pcReview, reviewDone, ratingFetches,
                averageRating, reviewCount, sinceSave>>
listVars == <<sellerProducts, deletedProducts, productDialogOpen, pcAddProduct,
              listProducts, editingProduct, listDialogOpen, listFetches,
              lastAdded>>
uploadVars == <<uploadForm, imagePreview, uploads, uploadEvent>>
locateVars == <<hasGeolocation, locationLoading, positionPending, locationEvent>>
appVars == <<rlsVars, authVars, reviewVars, listVars, uploadVars, locateVars>>
restOfRls == <<otherVars, authVars, reviewVars, listVars, uploadVars, locateVars>>
restOfAuth == <<otherVars, rlsVars, reviewVars, listVars, uploadVars, locateVars>>
restOfReview == <<otherVars, rlsVars, authVars, listVars, uploadVars, locateVars>>
restOfList == <<otherVars, rlsVars, authVars, reviewVars, uploadVars, locateVars>>
restOfUpload == <<otherVars, rlsVars, authVars, reviewVars, listVars, locateVars>>

\* userLocation when no position is held
Null == [null |-> TRUE]

\* ---------------------------------------------------------------- bounds
MaxNameLen == 2      \* longest product name in the products table
MaxNormLen == 3      \* longest argument of normalizeProductName
MaxProducts == 2     \* most rows in the products table
MaxPrice == 2        \* largest price
MaxShops == 3        \* most rows in the shops table
MaxCalls == 2        \* most invocations of a fetch function on one component
MaxWrites == 2       \* most writes one form sends
MaxGeoRequests == 2  \* most getCurrentPosition requests under way at once
MaxObjects == 2      \* most images in the products bucket
MaxShopRows == 2     \* most rows in the shops table under its policies
MaxProductRows == 2  \* most rows in the products table under its policies
MaxLookups == 2      \* most role lookups of AuthProvider in flight
MaxListed == 2       \* most products rows ever created in the seller's shop
MaxUploads == 1      \* most image uploads of one ProductForm in flight

\* characters product names are drawn from: letters in both cases,
\* a punctuation character and a whitespace character
Alphabet == {"a", "A", "b", "-", " "}

Fruit == <<"f", "r", "u", "i", "t">>
Flower == <<"f", "l", "o", "w", "e", "r">>
Categories == {Fruit, Flower}

SeqsUpTo(S, n) == UNION {[1..k -> S] : k \in 0..n}

Names == SeqsUpTo(Alphabet, MaxNameLen)
NormArgs == SeqsUpTo(Alphabet, MaxNormLen)
ProductRows == [name : Names, category : Categories, price : 1..MaxPrice]

\* ------------------------------------------------- string primitives (JS)
ToLowerChar(c) == IF c = "A" THEN "a" ELSE IF c = "B" THEN "b" ELSE c
ToUpperChar(c) == IF c = "a" THEN "A" ELSE IF c = "b" THEN "B" ELSE c

toLowerCase(s) == [i \in 1..Len(s) |-> ToLowerChar(s[i])]

IsWhitespace(c) == c = " "

SetMin(S) == CHOOSE x \in S : \A y \in S : x <= y
SetMax(S) == CHOOSE x \in S : \A y \in S : x >= y

trim(s) ==
    LET solid == {i \in 1..Len(s) : ~IsWhitespace(s[i])}
    IN  IF solid = {} THEN <<>> ELSE SubSeq(s, SetMin(solid), SetMax(solid))

\* the character class [a-z0-9\s]
IsKept(c) == c \in {"a", "b", " "}

\* .replace(/[^a-z0-9\s]/g, "")
stripOthers(s) == SelectSeq(s, IsKept)

normalizeProductName(name) == stripOthers(trim(toLowerCase(name)))

\* MakeKey with the category left out of the key
MakeKeyNameOnly(normalizedName, category) == normalizedName \o <<"-">>

\* `${normalizedName}-${product.category}`
MakeKey(normalizedName, category) == normalizedName \o <<"-">> \o category

\* key.split("-")[0]
SplitFirst(key) ==
    LET dashes == {i \in 1..Len(key) : key[i] = "-"}
    IN  IF dashes = {} THEN key ELSE SubSeq(key, 1, SetMin(dashes) - 1)

\* Capitalize upper-casing the whole name
CapitalizeAll(name) == [k \in 1..Len(name) |-> ToUpperChar(name[k])]

\* name.charAt(0).toUpperCase() + name.slice(1)
Capitalize(name) ==
    IF name = <<>> THEN <<>>
    ELSE <<ToUpperChar(name[1])>> \o SubSeq(name, 2, Len(name))

\* ------------------------------------------------------ String.localeCompare
\* collation rank of a character: whitespace, punctuation, then letters;
\* the two cases of a letter share a rank
PrimaryRank(c) ==
    IF c = " " THEN 0
    ELSE IF c = "-" THEN 1
    ELSE IF ToLowerChar(c) = "a" THEN 2
    ELSE 3

IsUpper(c) == c \in {"A", "B"}

\* lexicographic comparison of the rank sequences: -1, 0 or 1
RECURSIVE ComparePrimary(_, _, _)
ComparePrimary(x, y, i) ==
    IF i > Len(x) /\ i > Len(y) THEN 0
    ELSE IF i > Len(x) THEN -1
    ELSE IF i > Len(y) THEN 1
    ELSE IF PrimaryRank(x[i]) < PrimaryRank(y[i]) THEN -1
    ELSE IF PrimaryRank(x[i]) > PrimaryRank(y[i]) THEN 1
    ELSE ComparePrimary(x, y, i + 1)

\* case decides only between strings equal up to case: lower case first
RECURSIVE CompareCase(_, _, _)
CompareCase(x, y, i) ==
    IF i > Len(x) THEN 0
    ELSE IF IsUpper(x[i]) = IsUpper(y[i]) THEN CompareCase(x, y, i + 1)
    ELSE IF IsUpper(y[i]) THEN -1
    ELSE 1

localeCompare(x, y) ==
    LET p == ComparePrimary(x, y, 1)
    IN  IF p # 0 THEN p ELSE CompareCase(x, y, 1)

\* ------------------------------------------ AveragePricePanel: aggregation
RECURSIVE Gcd(_, _)
Gcd(m, n) == IF n = 0 THEN m ELSE Gcd(n, m % n)

\* the number total / count, as a fraction in lowest terms
Quotient(total, count) ==
    LET g == Gcd(total, count) IN <<total \div g, count \div g>>

\* AddProduct keyed by the name as written instead of the normalized name
AddProductRawName(priceMap, product) ==
    LET key == MakeKey(product.name, product.category)
        hit == {i \in 1..Len(priceMap) : priceMap[i].key = key}
    IN  IF hit # {}
        THEN [i \in 1..Len(priceMap) |->
                IF i \in hit
                THEN [priceMap[i] EXCEPT !.total = @ + product.price,
                                         !.count = @ + 1]
                ELSE priceMap[i]]
        ELSE Append(priceMap, [key |-> key,
                               total |-> product.price,
                               count |-> 1,
                               category |-> product.category])

\* body of products.forEach: one product folded into priceMap, a sequence of
\* entries in insertion order
AddProduct(priceMap, product) ==
    LET normalizedName == normalizeProductName(product.name)
        key == MakeKey(normalizedName, product.category)
        hit == {i \in 1..Len(priceMap) : priceMap[i].key = key}
    IN  IF hit # {}
        THEN [i \in 1..Len(priceMap) |->
                IF i \in hit
                THEN [priceMap[i] EXCEPT !.total = @ + product.price,
                                         !.count = @ + 1]
                ELSE priceMap[i]]
        ELSE Append(priceMap, [key |-> key,
                               total |-> product.price,
                               count |-> 1,
                               category |-> product.category])

RECURSIVE ForEachProduct(_, _, _)
ForEachProduct(ps, i, priceMap) ==
    IF i > Len(ps) THEN priceMap
    ELSE ForEachProduct(ps, i + 1, AddProduct(priceMap, ps[i]))

\* BuildPriceMap going on from the rows of the invocation before, as a
\* priceMap that outlives the invocation would
BuildPriceMapKept(ps) == ForEachProduct(products \o ps, 1, <<>>)

\* const priceMap = new Map(); products.forEach(...)
BuildPriceMap(ps) == ForEachProduct(ps, 1, <<>>)

\* ToAverage reporting the total as the average
ToAverageUndivided(entry) ==
    [name |-> Capitalize(SplitFirst(entry.key)),
     category |-> entry.category,
     avgPrice |-> Quotient(entry.total, 1),
     shopCount |-> entry.count]

\* the callback of Array.from(priceMap.entries()).map
ToAverage(entry) ==
    [name |-> Capitalize(SplitFirst(entry.key)),
     category |-> entry.category,
     avgPrice |-> Quotient(entry.total, entry.count),
     shopCount |-> entry.count]

\* CompareNames with its operands swapped
CompareNamesSwapped(a, b) == localeCompare(b.name, a.name)

CompareNames(a, b) == localeCompare(a.name, b.name)

\* InsertByName with x entering in front of the elements it compares equal to
RECURSIVE InsertByNameBeforeEqual(_, _, _)
InsertByNameBeforeEqual(sorted, x, i) ==
    IF i > Len(sorted) \/ CompareNames(sorted[i], x) >= 0
    THEN SubSeq(sorted, 1, i - 1) \o <<x>> \o SubSeq(sorted, i, Len(sorted))
    ELSE InsertByNameBeforeEqual(sorted, x, i + 1)

\* averages.sort((a, b) => a.name.localeCompare(b.name)): x enters the
\* sorted prefix behind every element that does not compare greater than it
\* (Array.prototype.sort is stable)
RECURSIVE InsertByName(_, _, _)
InsertByName(sorted, x, i) ==
    IF i > Len(sorted) \/ CompareNames(sorted[i], x) > 0
    THEN SubSeq(sorted, 1, i - 1) \o <<x>> \o SubSeq(sorted, i, Len(sorted))
    ELSE InsertByName(sorted, x, i + 1)

RECURSIVE SortByNameFrom(_, _, _)
SortByNameFrom(s, i, sorted) ==
    IF i > Len(s) THEN sorted
    ELSE SortByNameFrom(s, i + 1, InsertByName(sorted, s[i], 1))

SortByName(s) == SortByNameFrom(s, 1, <<>>)

\* averages, after averages.sort(...)
Averages(ps) ==
    LET priceMap == BuildPriceMap(ps)
        averages == [i \in 1..Len(priceMap) |-> ToAverage(priceMap[i])]
    IN  SortByName(averages)

\* ---------------------------------------------- AveragePricePanel: actions
ProductTables == SeqsUpTo(ProductRows, MaxProducts)

\* useEffect on mount: fetchAveragePrices runs up to its await
PanelMount ==
    /\ pcPanel = "mounted"
    /\ pcPanel' = "fetching"
    /\ UNCHANGED <<dbProducts, products, averagePrices, loading, errorLogged>>

\* FetchAveragePricesData returning early on an empty list, before loading
\* is cleared
FetchAveragePricesDataEarlyReturn ==
    /\ pcPanel = "fetching"
    /\ products' = dbProducts
    /\ averagePrices' = Averages(dbProducts)
    /\ loading' = (dbProducts = <<>>)
    /\ pcPanel' = "done"
    /\ UNCHANGED <<dbProducts, errorLogged>>

\* the select resolves with rows: aggregate, setAveragePrices, finally
FetchAveragePricesData ==
    /\ pcPanel = "fetching"
    /\ products' = dbProducts
    /\ averagePrices' = Averages(dbProducts)
    /\ loading' = FALSE
    /\ pcPanel' = "done"
    /\ UNCHANGED <<dbProducts, errorLogged>>

\* the select resolves with data null: the if is skipped, finally runs
FetchAveragePricesNoData ==
    /\ pcPanel = "fetching"
    /\ loading' = FALSE
    /\ pcPanel' = "nodata"
    /\ UNCHANGED <<dbProducts, products, averagePrices, errorLogged>>

\* the await rejects: catch logs, finally runs
FetchAveragePricesThrow ==
    /\ pcPanel = "fetching"
    /\ errorLogged' = TRUE
    /\ loading' = FALSE
    /\ pcPanel' = "threw"
    /\ UNCHANGED <<dbProducts, products, averagePrices>>

InitPanelIdle ==
    /\ dbProducts = <<>>
    /\ pcPanel = "off"
    /\ products = <<>>
    /\ averagePrices = <<>>
    /\ loading = TRUE
    /\ errorLogged = FALSE

InitNormIdle ==
    /\ nameIn = <<>>
    /\ nameOnce = <<>>
    /\ nameTwice = <<>>
    /\ pcNorm = "off"

InitShopsIdle ==
    /\ dbShops = <<>>
    /\ userLocation = Null
    /\ pcShops = "off"
    /\ shops = <<>>
    /\ shopsLoading = TRUE
    /\ shopsToast = FALSE

InitCallsIdle ==
    /\ calls = <<>>
    /\ shopsData = <<>>

InitCardsIdle == cards = <<>>

InitGeoIdle ==
    /\ closureLocation = Null
    /\ geoPending = 0
    /\ locationToast = FALSE

InitShopFormIdle ==
    /\ shopForm = Null
    /\ pcShopForm = "off"
    /\ shopWrites = <<>>
    /\ shopSaved = 0

InitProductFormIdle ==
    /\ productForm = Null
    /\ pcProductForm = "off"
    /\ productWrites = <<>>
    /\ productSaved = 0

InitStorageIdle ==
    /\ objects = {}
    /\ storageOp = Null

InitViewIdle == InitCallsIdle /\ InitCardsIdle /\ InitGeoIdle

InitFormsIdle == InitShopFormIdle /\ InitProductFormIdle /\ InitStorageIdle

InitRlsIdle ==
    /\ shopsTable = {}
    /\ productsTable = {}
    /\ productsOp = Null

InitAuthIdle ==
    /\ authStore = Null
    /\ profilesTable = {}
    /\ ctxUser = "null"
    /\ ctxSession = Null
    /\ userRole = "null"
    /\ authLoading = TRUE
    /\ lookups = <<>>
    /\ pcSignOut = "idle"
    /\ signUp = [at |-> "idle", role |-> "null"]
    /\ route = "/"
    /\ pcGetSession = "pending"

InitReviewIdle ==
    /\ reviewsTable = {}
    /\ reviewForm = [rating |-> 0, comment |-> ""]
    /\ pcReview = [at |-> "idle"]
    /\ reviewDone = Null
    /\ ratingFetches = <<>>
    /\ averageRating = <<0, 1>>
    /\ reviewCount = 0
    /\ sinceSave = {}


InitListIdle ==
    /\ sellerProducts = {}
    /\ deletedProducts = 0
    /\ productDialogOpen = FALSE
    /\ pcAddProduct = [at |-> "idle"]
    /\ listProducts = <<>>
    /\ editingProduct = Null
    /\ listDialogOpen = FALSE
    /\ listFetches = <<>>
    /\ lastAdded = 0



InitUploadIdle ==
    /\ uploadForm = Null
    /\ imagePreview = ""
    /\ uploads = <<>>
    /\ uploadEvent = "off"


InitLocateIdle ==
    /\ hasGeolocation = FALSE
    /\ locationLoading = FALSE
    /\ positionPending = FALSE
    /\ locationEvent = "none"


InitAppIdle == InitRlsIdle /\ InitAuthIdle /\ InitReviewIdle /\ InitListIdle /\ InitUploadIdle /\ InitLocateIdle

InitOthersIdle ==
    /\ InitPanelIdle
    /\ InitNormIdle
    /\ InitShopsIdle
    /\ InitViewIdle
    /\ InitFormsIdle

InitRestOfRls == InitOthersIdle /\ InitAuthIdle /\ InitReviewIdle /\ InitListIdle /\ InitUploadIdle /\ InitLocateIdle

InitRestOfAuth == InitOthersIdle /\ InitRlsIdle /\ InitReviewIdle /\ InitListIdle /\ InitUploadIdle /\ InitLocateIdle

InitRestOfReview == InitOthersIdle /\ InitRlsIdle /\ InitAuthIdle /\ InitListIdle /\ InitUploadIdle /\ InitLocateIdle

InitRestOfList == InitOthersIdle /\ InitRlsIdle /\ InitAuthIdle /\ InitReviewIdle /\ InitUploadIdle /\ InitLocateIdle

InitRestOfUpload == InitOthersIdle /\ InitRlsIdle /\ InitAuthIdle /\ InitReviewIdle /\ InitListIdle /\ InitLocateIdle

\* AveragePricePanel after construction, over any products table
InitPanel ==
    /\ dbProducts \in ProductTables
    /\ pcPanel = "mounted"
    /\ products = <<>>
    /\ averagePrices = <<>>
    /\ loading = TRUE
    /\ errorLogged = FALSE
    /\ InitNormIdle
    /\ InitShopsIdle
    /\ InitViewIdle
    /\ InitFormsIdle
    /\ InitAppIdle

NextPanel ==
    \/ PanelMount /\ UNCHANGED <<normVars, shopVars, viewVars, formVars, appVars>>
    \/ FetchAveragePricesData /\ UNCHANGED <<normVars, shopVars, viewVars, formVars, appVars>>
    \/ FetchAveragePricesNoData /\ UNCHANGED <<normVars, shopVars, viewVars, formVars, appVars>>
    \/ FetchAveragePricesThrow /\ UNCHANGED <<normVars, shopVars, viewVars, formVars, appVars>>

SpecPanel == InitPanel /\ [][NextPanel]_vars

\* -------------------------------------- normalizeProductName on its own
Normalize ==
    /\ pcNorm = "arg"
    /\ nameOnce' = normalizeProductName(nameIn)
    /\ pcNorm' = "once"
    /\ UNCHANGED <<nameIn, nameTwice>>

NormalizeAgain ==
    /\ pcNorm = "once"
    /\ nameTwice' = normalizeProductName(nameOnce)
    /\ pcNorm' = "twice"
    /\ UNCHANGED <<nameIn, nameOnce>>

InitNorm ==
    /\ nameIn \in NormArgs
    /\ nameOnce = <<>>
    /\ nameTwice = <<>>
    /\ pcNorm = "arg"
    /\ InitPanelIdle
    /\ InitShopsIdle
    /\ InitViewIdle
    /\ InitFormsIdle
    /\ InitAppIdle

NextNorm ==
    \/ Normalize /\ UNCHANGED <<panelVars, shopVars, viewVars, formVars, appVars>>
    \/ NormalizeAgain /\ UNCHANGED <<panelVars, shopVars, viewVars, formVars, appVars>>

SpecNorm == InitNorm /\ [][NextNorm]_vars

\* ------------------------------------------- BuyerDashboard: calculateDistance
\* Coordinates are whole degrees.  Numbers between 0 and 1 are fixed point
\* with four decimals, every operation rounding to the nearest such number as
\* IEEE arithmetic rounds to the nearest double; the central angle is in
\* milliradians and the distance in whole kilometres.
Lats == {-8, 0, 8}
Lngs == {-90, 0, 90}

Abs(x) == IF x < 0 THEN -x ELSE x

\* x / d rounded to nearest, for x >= 0
RoundDiv(x, d) == (x + d \div 2) \div d

\* the product of two four-decimal numbers
Mul(x, y) == RoundDiv(x * y, 10000)

\* |Math.sin(d / 2)| for an angle of d degrees; the sign is lost in the square
SinHalf(d) ==
    CASE Abs(d) = 0 -> 0
      [] Abs(d) = 8 -> 698
      [] Abs(d) = 16 -> 1392
      [] Abs(d) = 90 -> 7071
      [] Abs(d) = 180 -> 10000

\* Math.cos of an angle of lat degrees
CosDeg(lat) ==
    CASE Abs(lat) = 0 -> 10000
      [] Abs(lat) = 8 -> 9903

\* Math.sqrt of a four-decimal number
RECURSIVE FloorSqrt(_, _, _)
FloorSqrt(n, lo, hi) ==
    IF lo = hi THEN lo
    ELSE LET mid == (lo + hi + 1) \div 2
         IN  IF mid * mid <= n THEN FloorSqrt(n, mid, hi)
             ELSE FloorSqrt(n, lo, mid - 1)

Sqrt(x) ==
    LET n == x * 10000
        r == FloorSqrt(n, 0, 10000)
    IN  IF n - r * r > r THEN r + 1 ELSE r

\* the angle whose sine is s, linear between the sines of 0, 5, ..., 90 degrees
ArcSinKnots ==
    <<<<0, 0>>, <<872, 87>>, <<1736, 175>>, <<2588, 262>>, <<3420, 349>>,
      <<4226, 436>>, <<5000, 524>>, <<5736, 611>>, <<6428, 698>>,
      <<7071, 785>>, <<7660, 873>>, <<8192, 960>>, <<8660, 1047>>,
      <<9063, 1134>>, <<9397, 1222>>, <<9659, 1309>>, <<9848, 1396>>,
      <<9962, 1484>>, <<10000, 1571>>>>

ArcSin(s) ==
    LET k == SetMax({i \in 1..(Len(ArcSinKnots) - 1) : ArcSinKnots[i][1] <= s})
        lo == ArcSinKnots[k]
        hi == ArcSinKnots[k + 1]
    IN  lo[2] + RoundDiv((s - lo[1]) * (hi[2] - lo[2]), hi[1] - lo[1])

\* the value NaN: Math.sqrt(1 - a) for a > 1, and all that is computed from it
NaN == -1

\* Earth radius in kilometres
R == 6371

\* calculateDistance with dLat taken as the sum of the latitudes
calculateDistanceSumLat(lat1, lon1, lat2, lon2) ==
    LET dLat == lat2 + lat1
        dLon == lon2 - lon1
        a == Mul(SinHalf(dLat), SinHalf(dLat)) +
             Mul(Mul(Mul(CosDeg(lat1), CosDeg(lat2)), SinHalf(dLon)), SinHalf(dLon))
    IN  IF a > 10000 THEN NaN
        ELSE LET c == 2 * ArcSin(Sqrt(a))
             IN  R * c

\* calculateDistance with the cosine of lat1 in the place of that of lat2
calculateDistanceLat1Twice(lat1, lon1, lat2, lon2) ==
    LET dLat == lat2 - lat1
        dLon == lon2 - lon1
        a == Mul(SinHalf(dLat), SinHalf(dLat)) +
             Mul(Mul(Mul(CosDeg(lat1), CosDeg(lat1)), SinHalf(dLon)), SinHalf(dLon))
    IN  IF a > 10000 THEN NaN
        ELSE LET c == 2 * ArcSin(Sqrt(a))
             IN  R * c

\* for 0 <= a <= 1, 2 * atan2(sqrt(a), sqrt(1 - a)) is 2 * asin(sqrt(a))
\* c is in thousandths of a radian, R * c in thousandths of a kilometre
calculateDistance(lat1, lon1, lat2, lon2) ==
    LET dLat == lat2 - lat1
        dLon == lon2 - lon1
        a == Mul(SinHalf(dLat), SinHalf(dLat)) +
             Mul(Mul(Mul(CosDeg(lat1), CosDeg(lat2)), SinHalf(dLon)), SinHalf(dLon))
    IN  IF a > 10000 THEN NaN
        ELSE LET c == 2 * ArcSin(Sqrt(a))
             IN  R * c

\* ------------------------------------------------ BuyerDashboard: fetchShops
\* WithDistance building a fresh object from the id instead of spreading
WithDistanceNoSpread(shop, location) ==
    [id |-> shop.id,
     distance |-> calculateDistance(location.lat, location.lng,
                                    shop.latitude, shop.longitude)]

\* { ...shop, distance: calculateDistance(...) }
WithDistance(shop, location) ==
    [f \in DOMAIN shop \cup {"distance"} |->
        IF f = "distance"
        THEN calculateDistance(location.lat, location.lng,
                               shop.latitude, shop.longitude)
        ELSE shop[f]]

\* (x as any).distance || 0
DistanceOrZero(x) ==
    IF "distance" \in DOMAIN x /\ x.distance # 0 /\ x.distance # NaN
    THEN x.distance
    ELSE 0

CompareDistance(a, b) == DistanceOrZero(a) - DistanceOrZero(b)

\* InsertByDistance placing a shop in front of the shops it ties with
RECURSIVE InsertByDistanceBeforeEqual(_, _, _)
InsertByDistanceBeforeEqual(sorted, x, i) ==
    IF i > Len(sorted) \/ CompareDistance(sorted[i], x) >= 0
    THEN SubSeq(sorted, 1, i - 1) \o <<x>> \o SubSeq(sorted, i, Len(sorted))
    ELSE InsertByDistanceBeforeEqual(sorted, x, i + 1)

\* shopsWithDistance.sort((a, b) => (a.distance || 0) - (b.distance || 0)),
\* a stable sort
RECURSIVE InsertByDistance(_, _, _)
InsertByDistance(sorted, x, i) ==
    IF i > Len(sorted) \/ CompareDistance(sorted[i], x) > 0
    THEN SubSeq(sorted, 1, i - 1) \o <<x>> \o SubSeq(sorted, i, Len(sorted))
    ELSE InsertByDistance(sorted, x, i + 1)

RECURSIVE SortByDistanceFrom(_, _, _)
SortByDistanceFrom(s, i, sorted) ==
    IF i > Len(s) THEN sorted
    ELSE SortByDistanceFrom(s, i + 1, InsertByDistance(sorted, s[i], 1))

SortByDistance(s) == SortByDistanceFrom(s, 1, <<>>)

\* RankShops annotating outside the if, with distance 0 for want of a location
RankShopsAlwaysAnnotated(data, location) ==
    IF location # Null
    THEN SortByDistance([i \in 1..Len(data) |-> WithDistance(data[i], location)])
    ELSE [i \in 1..Len(data) |->
            [f \in DOMAIN data[i] \cup {"distance"} |->
                IF f = "distance" THEN 0 ELSE data[i][f]]]

\* shopsWithDistance as handed to setShops
RankShops(data, location) ==
    IF location # Null
    THEN SortByDistance([i \in 1..Len(data) |-> WithDistance(data[i], location)])
    ELSE data

Locations == [lat : Lats, lng : Lngs]

\* shops tables of n rows; the id is the primary key
ShopTablesOf(n) ==
    {[i \in 1..n |-> [id |-> i, latitude |-> at[i].lat, longitude |-> at[i].lng]] :
        at \in [1..n -> Locations]}

ShopTables == UNION {ShopTablesOf(n) : n \in 0..MaxShops}

\* fetchShops runs up to its await: setLoading(true)
FetchShopsStart ==
    /\ pcShops = "mounted"
    /\ shopsLoading' = TRUE
    /\ pcShops' = "fetching"
    /\ UNCHANGED <<dbShops, userLocation, shops, shopsToast>>

\* the select resolves with rows: rank, setShops, finally
FetchShopsData ==
    /\ pcShops = "fetching"
    /\ shops' = RankShops(dbShops, userLocation)
    /\ shopsLoading' = FALSE
    /\ pcShops' = "done"
    /\ UNCHANGED <<dbShops, userLocation, shopsToast>>

\* the select resolves with an error: throw, toast, finally
FetchShopsError ==
    /\ pcShops = "fetching"
    /\ shopsToast' = TRUE
    /\ shopsLoading' = FALSE
    /\ pcShops' = "failed"
    /\ UNCHANGED <<dbShops, userLocation, shops>>

\* fetchShops over any shops table, with or without a buyer coordinate
InitRank ==
    /\ dbShops \in ShopTables
    /\ userLocation \in Locations \cup {Null}
    /\ pcShops = "mounted"
    /\ shops = <<>>
    /\ shopsLoading = TRUE
    /\ shopsToast = FALSE
    /\ InitPanelIdle
    /\ InitNormIdle
    /\ InitViewIdle
    /\ InitFormsIdle
    /\ InitAppIdle

NextRank ==
    \/ FetchShopsStart /\ UNCHANGED <<panelVars, normVars, viewVars, formVars, appVars>>
    \/ FetchShopsData /\ UNCHANGED <<panelVars, normVars, viewVars, formVars, appVars>>
    \/ FetchShopsError /\ UNCHANGED <<panelVars, normVars, viewVars, formVars, appVars>>

SpecRank == InitRank /\ [][NextRank]_vars

\* ---------------- fetchAveragePrices and fetchShops invoked more than once
\* One mounted component whose fetch function is invoked up to MaxCalls
\* times, while sellers add rows.  An invocation runs up to its await, the
\* select is answered from the table as it then stands, and the rest of the
\* invocation runs when the answer arrives; answers arrive in any order.

\* rows ProductForm inserts while the panel is on screen
NewProductRows ==
    {[name |-> <<"a">>, category |-> Fruit, price |-> 1],
     [name |-> <<"A">>, category |-> Fruit, price |-> MaxPrice],
     [name |-> <<"b">>, category |-> Flower, price |-> 1]}

\* coordinates ShopForm inserts while the dashboard is on screen
NewShopSites == {[lat |-> 0, lng |-> 90], [lat |-> 8, lng |-> 0]}

\* the buyer coordinate fetchShops reads, if any
BuyerSpots == {Null, [lat |-> 0, lng |-> 0]}

\* supabase.from("products").insert(...)
ProductAdded ==
    /\ pcPanel = "mounted"
    /\ Len(dbProducts) < MaxProducts
    /\ \E row \in NewProductRows : dbProducts' = Append(dbProducts, row)
    /\ UNCHANGED <<pcPanel, products, averagePrices, loading, errorLogged>>

\* supabase.from("shops").insert(...)
ShopAdded ==
    /\ pcShops = "mounted"
    /\ Len(dbShops) < MaxShops
    /\ \E site \in NewShopSites :
          dbShops' = Append(dbShops, [id |-> Len(dbShops) + 1,
                                      latitude |-> site.lat,
                                      longitude |-> site.lng])
    /\ UNCHANGED <<userLocation, pcShops, shops, shopsLoading, shopsToast>>

\* fetchAveragePrices is called and runs up to its await
InvokeFetchAveragePrices ==
    /\ pcPanel = "mounted"
    /\ Len(calls) < MaxCalls
    /\ calls' = Append(calls, [fn |-> "fetchAveragePrices", at |-> "awaiting",
                               outcome |-> "pending", rows |-> <<>>])
    /\ UNCHANGED <<panelVars, shopVars, shopsData, appVars>>

\* fetchShops is called and runs up to its await: setLoading(true)
InvokeFetchShops ==
    /\ pcShops = "mounted"
    /\ Len(calls) < MaxCalls
    /\ calls' = Append(calls, [fn |-> "fetchShops", at |-> "awaiting",
                               outcome |-> "pending", rows |-> <<>>])
    /\ shopsLoading' = TRUE
    /\ UNCHANGED <<panelVars, dbShops, userLocation, pcShops, shops,
                   shopsToast, shopsData, appVars>>

\* what the select of an invocation can be answered with
OutcomesOf(fn) ==
    IF fn = "fetchAveragePrices" THEN {"rows", "null", "error"}
    ELSE {"rows", "error"}

\* the table an invocation selects from
TableOf(fn) == IF fn = "fetchAveragePrices" THEN dbProducts ELSE dbShops

\* the database answers the select of invocation i
SelectAnswered(i) ==
    /\ i \in 1..Len(calls)
    /\ calls[i].at = "awaiting"
    /\ \E outcome \in OutcomesOf(calls[i].fn) :
          calls' = [calls EXCEPT ![i] =
                       [fn |-> calls[i].fn, at |-> "answered", outcome |-> outcome,
                        rows |-> IF outcome = "rows" THEN TableOf(calls[i].fn)
                                 ELSE <<>>]]
    /\ UNCHANGED <<panelVars, shopVars, shopsData, appVars>>

\* AwaitedRows handing every invocation the answer to the latest one
AwaitedRowsOfLatest(i) == calls[Len(calls)].rows

\* const { data } = await ...: the rows invocation i was answered with
AwaitedRows(i) == calls[i].rows

\* invocation i of fetchAveragePrices runs from its await to its end
FetchAveragePricesReturns(i) ==
    /\ i \in 1..Len(calls)
    /\ calls[i].fn = "fetchAveragePrices"
    /\ calls[i].at = "answered"
    /\ calls' = [calls EXCEPT ![i].at = "returned"]
    /\ IF calls[i].outcome = "rows"
       THEN /\ products' = AwaitedRows(i)
            /\ averagePrices' = Averages(AwaitedRows(i))
       ELSE UNCHANGED <<products, averagePrices>>
    /\ errorLogged' = (errorLogged \/ calls[i].outcome = "error")
    /\ loading' = FALSE
    /\ UNCHANGED <<dbProducts, pcPanel, shopVars, shopsData>>

\* invocation i of fetchShops runs from its await to its end
FetchShopsReturns(i) ==
    /\ i \in 1..Len(calls)
    /\ calls[i].fn = "fetchShops"
    /\ calls[i].at = "answered"
    /\ calls' = [calls EXCEPT ![i].at = "returned"]
    /\ IF calls[i].outcome = "rows"
       THEN /\ shopsData' = AwaitedRows(i)
            /\ shops' = RankShops(AwaitedRows(i), userLocation)
       ELSE UNCHANGED <<shopsData, shops>>
    /\ shopsToast' = (shopsToast \/ calls[i].outcome = "error")
    /\ shopsLoading' = FALSE
    /\ UNCHANGED <<panelVars, dbShops, userLocation, pcShops, appVars>>

\* a mounted AveragePricePanel over an empty products table
InitPanelCalls ==
    /\ dbProducts = <<>>
    /\ pcPanel = "mounted"
    /\ products = <<>>
    /\ averagePrices = <<>>
    /\ loading = TRUE
    /\ errorLogged = FALSE
    /\ InitShopsIdle

\* a mounted BuyerDashboard over an empty shops table
InitShopCalls ==
    /\ dbShops = <<>>
    /\ userLocation \in BuyerSpots
    /\ pcShops = "mounted"
    /\ shops = <<>>
    /\ shopsLoading = TRUE
    /\ shopsToast = FALSE
    /\ InitPanelIdle

InitCalls ==
    /\ InitPanelCalls \/ InitShopCalls
    /\ InitCallsIdle
    /\ InitNormIdle
    /\ InitCardsIdle
    /\ InitGeoIdle
    /\ InitFormsIdle
    /\ InitAppIdle

NextCalls ==
    \/ ProductAdded /\ UNCHANGED <<normVars, shopVars, viewVars, formVars, appVars>>
    \/ ShopAdded /\ UNCHANGED <<panelVars, normVars, viewVars, formVars, appVars>>
    \/ InvokeFetchAveragePrices /\ UNCHANGED <<normVars, cardVars, geoVars, formVars, appVars>>
    \/ InvokeFetchShops /\ UNCHANGED <<normVars, cardVars, geoVars, formVars, appVars>>
    \/ \E i \in 1..MaxCalls :
          SelectAnswered(i) /\ UNCHANGED <<normVars, cardVars, geoVars, formVars, appVars>>
    \/ \E i \in 1..MaxCalls :
          FetchAveragePricesReturns(i)
              /\ UNCHANGED <<normVars, cardVars, geoVars, formVars, appVars>>
    \/ \E i \in 1..MaxCalls :
          FetchShopsReturns(i) /\ UNCHANGED <<normVars, cardVars, geoVars, formVars, appVars>>

SpecCalls == InitCalls /\ [][NextCalls]_vars

\* ------------------------------------------- ShopCard: the distance badge
\* shop.distance values a stored shop can carry, none of them halfway
\* between two values toFixed rounds to
CardDistances == {0, 400, 999, 1000, 1449, 2500, NaN}

\* stored lists of n shops that carry a distance, in the order fetchShops
\* leaves them in; of a shop only the id and the distance are kept
RankedListsOf(n) ==
    {list \in {[i \in 1..n |-> [id |-> order[i], distance |-> dist[i]]] :
                  order \in {f \in [1..n -> 1..n] :
                                \A i, j \in 1..n : f[i] = f[j] => i = j},
                  dist \in [1..n -> CardDistances]} :
        \A i \in 1..(n - 1) : CompareDistance(list[i], list[i + 1]) <= 0}

\* stored lists of n shops without distances, in fetched order
UnrankedListsOf(n) == {[i \in 1..n |-> [id |-> i]]}

StoredLists == UNION {RankedListsOf(n) \cup UnrankedListsOf(n) : n \in 0..MaxShops}

\* DistanceBadge giving every distance in kilometres
DistanceBadgeAlwaysKm(shop) ==
    IF "distance" \notin DOMAIN shop THEN Null
    ELSE [amount |-> IF shop.distance = NaN THEN NaN
                     ELSE RoundDiv(shop.distance, 100),
          decimals |-> 1, unit |-> "km"]

\* the Badge of a ShopCard: (distance * 1000).toFixed(0) + "m" below 1 km,
\* distance.toFixed(1) + "km" otherwise, no Badge without a distance;
\* NaN < 1 is false
DistanceBadge(shop) ==
    IF "distance" \notin DOMAIN shop THEN Null
    ELSE IF shop.distance # NaN /\ shop.distance < 1000
         THEN [amount |-> shop.distance, decimals |-> 0, unit |-> "m"]
         ELSE [amount |-> IF shop.distance = NaN THEN NaN
                          ELSE RoundDiv(shop.distance, 100),
               decimals |-> 1, unit |-> "km"]

\* BuyerDashboard renders: the shops the search query matches, in stored
\* order, one ShopCard each
RenderShopCards ==
    /\ pcShops = "done"
    /\ ~shopsLoading
    /\ \E hits \in SUBSET {shops[j].id : j \in 1..Len(shops)} :
          LET filteredShops == SelectSeq(shops, LAMBDA shop : shop.id \in hits)
          IN  cards' = [k \in 1..Len(filteredShops) |->
                           [id |-> filteredShops[k].id,
                            badge |-> DistanceBadge(filteredShops[k])]]
    /\ UNCHANGED shopVars

\* a BuyerDashboard whose fetchShops has stored a list
InitCard ==
    /\ dbShops = <<>>
    /\ userLocation = Null
    /\ pcShops = "done"
    /\ shops \in StoredLists
    /\ shopsLoading = FALSE
    /\ shopsToast = FALSE
    /\ cards = <<>>
    /\ InitPanelIdle
    /\ InitNormIdle
    /\ InitCallsIdle
    /\ InitGeoIdle
    /\ InitFormsIdle
    /\ InitAppIdle

NextCard ==
    RenderShopCards /\ UNCHANGED <<panelVars, normVars, callVars, geoVars, formVars, appVars>>

SpecCard == InitCard /\ [][NextCard]_vars

\* --------------------------------------------- number inputs of the forms
\* A number held by a form: NaN, or a whole number that may be negative.
NotANumber == [nan |-> TRUE, value |-> 0]

Num(n) == [nan |-> FALSE, value |-> n]

Digits == <<"0", "1", "2", "3", "4", "5", "6", "7", "8", "9">>

IsDigit(c) == \E k \in 1..Len(Digits) : Digits[k] = c

DigitValue(c) == (CHOOSE k \in 1..Len(Digits) : Digits[k] = c) - 1

\* the value of the digits of s from position i on, up to the first
\* character that is not a digit
RECURSIVE ParseDigits(_, _, _)
ParseDigits(s, i, acc) ==
    IF i > Len(s) \/ ~IsDigit(s[i]) THEN acc
    ELSE ParseDigits(s, i + 1, 10 * acc + DigitValue(s[i]))

\* parseFloat of a text without decimal point or exponent: an optional
\* sign and the longest run of digits after it, NaN if there is none
parseFloat(s) ==
    LET negative == Len(s) > 0 /\ s[1] = "-"
        start == IF negative THEN 2 ELSE 1
    IN  IF start > Len(s) \/ ~IsDigit(s[start]) THEN NotANumber
        ELSE Num((IF negative THEN -1 ELSE 1) * ParseDigits(s, start, 0))

\* e.target.value of an <Input type="number">: the typed text if it is a
\* number, the empty string if not
InputValue(text) ==
    LET start == IF Len(text) > 0 /\ text[1] = "-" THEN 2 ELSE 1
    IN  IF start <= Len(text) /\ \A i \in start..Len(text) : IsDigit(text[i])
        THEN text
        ELSE <<>>

\* ------------------------------------------------- ShopForm: handleSubmit
\* texts typed into the latitude and longitude inputs
LatitudeTexts ==
    {<<>>, <<"9", "0">>, <<"9", "1">>, <<"-", "9", "0">>, <<"-", "9", "1">>,
     <<"9", "a">>}

LongitudeTexts ==
    {<<>>, <<"1", "8", "0">>, <<"1", "8", "1">>, <<"-", "1", "8", "1">>}

\* shopSchema with a latitude that has a minimum only
shopSchemaNoLatitudeMax(formData) ==
    /\ formData.textsOk
    /\ ~formData.latitude.nan
    /\ formData.latitude.value >= -90
    /\ ~formData.longitude.nan
    /\ formData.longitude.value >= -180
    /\ formData.longitude.value <= 180

\* shopSchema.parse(formData) returns; textsOk says that shop_name,
\* owner_name, address and phone pass
shopSchema(formData) ==
    /\ formData.textsOk
    /\ ~formData.latitude.nan
    /\ formData.latitude.value >= -90
    /\ formData.latitude.value <= 90
    /\ ~formData.longitude.nan
    /\ formData.longitude.value >= -180
    /\ formData.longitude.value <= 180

\* onChange of the latitude input
TypeLatitude ==
    /\ pcShopForm \in {"editing", "rejected", "failed", "saved"}
    /\ \E text \in LatitudeTexts :
          shopForm' = [shopForm EXCEPT !.latitude = parseFloat(InputValue(text))]
    /\ pcShopForm' = "editing"
    /\ UNCHANGED <<shopWrites, shopSaved>>

\* onChange of the longitude input
TypeLongitude ==
    /\ pcShopForm \in {"editing", "rejected", "failed", "saved"}
    /\ \E text \in LongitudeTexts :
          shopForm' = [shopForm EXCEPT !.longitude = parseFloat(InputValue(text))]
    /\ pcShopForm' = "editing"
    /\ UNCHANGED <<shopWrites, shopSaved>>

\* onChange of the text inputs
TypeShopTexts ==
    /\ pcShopForm \in {"editing", "rejected", "failed", "saved"}
    /\ \E ok \in BOOLEAN : shopForm' = [shopForm EXCEPT !.textsOk = ok]
    /\ pcShopForm' = "editing"
    /\ UNCHANGED <<shopWrites, shopSaved>>

\* handleSubmit up to its await: parse, then update or insert with the
\* validated row; a ZodError goes to the toast of the catch block
ShopFormSubmit ==
    /\ pcShopForm \in {"editing", "rejected", "failed", "saved"}
    /\ Len(shopWrites) < MaxWrites
    /\ IF shopSchema(shopForm)
       THEN /\ shopWrites' = Append(shopWrites,
                                    [latitude |-> shopForm.latitude,
                                     longitude |-> shopForm.longitude])
            /\ pcShopForm' = "writing"
       ELSE /\ pcShopForm' = "rejected"
            /\ UNCHANGED shopWrites
    /\ UNCHANGED <<shopForm, shopSaved>>

\* the write is answered without error: toast, onSaved()
ShopFormWritten ==
    /\ pcShopForm = "writing"
    /\ shopSaved' = shopSaved + 1
    /\ pcShopForm' = "saved"
    /\ UNCHANGED <<shopForm, shopWrites>>

\* the write is answered with an error: throw, toast
ShopFormWriteFailed ==
    /\ pcShopForm = "writing"
    /\ pcShopForm' = "failed"
    /\ UNCHANGED <<shopForm, shopWrites, shopSaved>>

\* ShopForm after construction without a shop
InitShopForm ==
    /\ shopForm = [latitude |-> Num(0), longitude |-> Num(0), textsOk |-> FALSE]
    /\ pcShopForm = "editing"
    /\ shopWrites = <<>>
    /\ shopSaved = 0
    /\ InitPanelIdle
    /\ InitNormIdle
    /\ InitShopsIdle
    /\ InitViewIdle
    /\ InitProductFormIdle
    /\ InitStorageIdle
    /\ InitAppIdle

NextShopForm ==
    \/ TypeLatitude
          /\ UNCHANGED <<panelVars, normVars, shopVars, viewVars,
                         productFormVars, storageVars, appVars>>
    \/ TypeLongitude
          /\ UNCHANGED <<panelVars, normVars, shopVars, viewVars,
                         productFormVars, storageVars, appVars>>
    \/ TypeShopTexts
          /\ UNCHANGED <<panelVars, normVars, shopVars, viewVars,
                         productFormVars, storageVars, appVars>>
    \/ ShopFormSubmit
          /\ UNCHANGED <<panelVars, normVars, shopVars, viewVars,
                         productFormVars, storageVars, appVars>>
    \/ ShopFormWritten
          /\ UNCHANGED <<panelVars, normVars, shopVars, viewVars,
                         productFormVars, storageVars, appVars>>
    \/ ShopFormWriteFailed
          /\ UNCHANGED <<panelVars, normVars, shopVars, viewVars,
                         productFormVars, storageVars, appVars>>

SpecShopForm == InitShopForm /\ [][NextShopForm]_vars

\* ---------------------------------------------- ProductForm: handleSubmit
\* texts typed into the price input
PriceTexts ==
    {<<>>, <<"0">>, <<"-", "1">>, <<"1">>, <<"9", "9", "9", "9", "9", "9">>,
     <<"1", "0", "0", "0", "0", "0", "0">>, <<"1", "a">>}

\* productSchema with a price that may be zero or negative
productSchemaAnyPrice(formData) ==
    /\ formData.textsOk
    /\ formData.category \in {Fruit, Flower}
    /\ ~parseFloat(formData.price).nan
    /\ parseFloat(formData.price).value <= 999999

\* productSchema.parse({...formData, price: parseFloat(...)}) returns;
\* textsOk says that name, quantity_unit and image_url pass
productSchema(formData) ==
    /\ formData.textsOk
    /\ formData.category \in {Fruit, Flower}
    /\ ~parseFloat(formData.price).nan
    /\ parseFloat(formData.price).value > 0
    /\ parseFloat(formData.price).value <= 999999

\* onChange of the price input
TypePrice ==
    /\ pcProductForm \in {"editing", "rejected", "failed", "saved"}
    /\ \E text \in PriceTexts :
          productForm' = [productForm EXCEPT !.price = InputValue(text)]
    /\ pcProductForm' = "editing"
    /\ UNCHANGED <<productWrites, productSaved>>

\* onValueChange of the category select
PickCategory ==
    /\ pcProductForm \in {"editing", "rejected", "failed", "saved"}
    /\ \E value \in {Fruit, Flower} :
          productForm' = [productForm EXCEPT !.category = value]
    /\ pcProductForm' = "editing"
    /\ UNCHANGED <<productWrites, productSaved>>

\* onChange of the text inputs
TypeProductTexts ==
    /\ pcProductForm \in {"editing", "rejected", "failed", "saved"}
    /\ \E ok \in BOOLEAN : productForm' = [productForm EXCEPT !.textsOk = ok]
    /\ pcProductForm' = "editing"
    /\ UNCHANGED <<productWrites, productSaved>>

\* handleSubmit up to its await: parse, then update or insert with the
\* validated row; a ZodError goes to the toast of the catch block
ProductFormSubmit ==
    /\ pcProductForm \in {"editing", "rejected", "failed", "saved"}
    /\ Len(productWrites) < MaxWrites
    /\ IF productSchema(productForm)
       THEN /\ productWrites' = Append(productWrites,
                                       [category |-> productForm.category,
                                        price |-> parseFloat(productForm.price)])
            /\ pcProductForm' = "writing"
       ELSE /\ pcProductForm' = "rejected"
            /\ UNCHANGED productWrites
    /\ UNCHANGED <<productForm, productSaved>>

\* the write is answered without error: toast, onSaved()
ProductFormWritten ==
    /\ pcProductForm = "writing"
    /\ productSaved' = productSaved + 1
    /\ pcProductForm' = "saved"
    /\ UNCHANGED <<productForm, productWrites>>

\* the write is answered with an error: throw, toast
ProductFormWriteFailed ==
    /\ pcProductForm = "writing"
    /\ pcProductForm' = "failed"
    /\ UNCHANGED <<productForm, productWrites, productSaved>>

\* ProductForm after construction without a product
InitProductForm ==
    /\ productForm = [category |-> Fruit, price |-> <<>>, textsOk |-> FALSE]
    /\ pcProductForm = "editing"
    /\ productWrites = <<>>
    /\ productSaved = 0
    /\ InitPanelIdle
    /\ InitNormIdle
    /\ InitShopsIdle
    /\ InitViewIdle
    /\ InitShopFormIdle
    /\ InitStorageIdle
    /\ InitAppIdle

NextProductForm ==
    \/ TypePrice
          /\ UNCHANGED <<panelVars, normVars, shopVars, viewVars,
                         shopFormVars, storageVars, appVars>>
    \/ PickCategory
          /\ UNCHANGED <<panelVars, normVars, shopVars, viewVars,
                         shopFormVars, storageVars, appVars>>
    \/ TypeProductTexts
          /\ UNCHANGED <<panelVars, normVars, shopVars, viewVars,
                         shopFormVars, storageVars, appVars>>
    \/ ProductFormSubmit
          /\ UNCHANGED <<panelVars, normVars, shopVars, viewVars,
                         shopFormVars, storageVars, appVars>>
    \/ ProductFormWritten
          /\ UNCHANGED <<panelVars, normVars, shopVars, viewVars,
                         shopFormVars, storageVars, appVars>>
    \/ ProductFormWriteFailed
          /\ UNCHANGED <<panelVars, normVars, shopVars, viewVars,
                         shopFormVars, storageVars, appVars>>

SpecProductForm == InitProductForm /\ [][NextProductForm]_vars

\* ------------------------------ BuyerDashboard: mount, location and fetch
\* useEffect(() => { getUserLocation(); fetchShops(); }, []): the position
\* request goes out and fetchShops, a closure of the first render, runs up
\* to its await with the userLocation of that render
DashboardMount ==
    /\ pcShops = "mounted"
    /\ geoPending' = geoPending + 1
    /\ closureLocation' = userLocation
    /\ shopsLoading' = TRUE
    /\ pcShops' = "fetching"
    /\ UNCHANGED <<dbShops, userLocation, shops, shopsToast, locationToast>>

\* the success callback of getCurrentPosition: setUserLocation
PositionFound ==
    /\ geoPending > 0
    /\ geoPending' = geoPending - 1
    /\ userLocation' \in Locations
    /\ UNCHANGED <<dbShops, pcShops, shops, shopsLoading, shopsToast,
                   closureLocation, locationToast>>

\* the error callback of getCurrentPosition: toast
PositionDenied ==
    /\ geoPending > 0
    /\ geoPending' = geoPending - 1
    /\ locationToast' = TRUE
    /\ UNCHANGED <<shopVars, closureLocation>>

\* onClick of the MapPin button: getUserLocation
LocateButton ==
    /\ pcShops \in {"fetching", "done", "failed"}
    /\ geoPending < MaxGeoRequests
    /\ geoPending' = geoPending + 1
    /\ UNCHANGED <<shopVars, closureLocation, locationToast>>

\* the select of the mount effect's fetchShops resolves with rows: rank
\* with the userLocation of the closure, setShops, finally
MountFetchShopsData ==
    /\ pcShops = "fetching"
    /\ shops' = RankShops(dbShops, closureLocation)
    /\ shopsLoading' = FALSE
    /\ pcShops' = "done"
    /\ UNCHANGED <<dbShops, userLocation, shopsToast, geoVars>>

\* the select resolves with an error: throw, toast, finally
MountFetchShopsError ==
    /\ pcShops = "fetching"
    /\ shopsToast' = TRUE
    /\ shopsLoading' = FALSE
    /\ pcShops' = "failed"
    /\ UNCHANGED <<dbShops, userLocation, shops, geoVars>>

\* BuyerDashboard after construction, over any shops table
InitDashboard ==
    /\ dbShops \in ShopTables
    /\ userLocation = Null
    /\ pcShops = "mounted"
    /\ shops = <<>>
    /\ shopsLoading = TRUE
    /\ shopsToast = FALSE
    /\ InitGeoIdle
    /\ InitPanelIdle
    /\ InitNormIdle
    /\ InitCallsIdle
    /\ InitCardsIdle
    /\ InitFormsIdle
    /\ InitAppIdle

NextDashboard ==
    \/ DashboardMount /\ UNCHANGED <<panelVars, normVars, callVars, cardVars, formVars, appVars>>
    \/ PositionFound /\ UNCHANGED <<panelVars, normVars, callVars, cardVars, formVars, appVars>>
    \/ PositionDenied /\ UNCHANGED <<panelVars, normVars, callVars, cardVars, formVars, appVars>>
    \/ LocateButton /\ UNCHANGED <<panelVars, normVars, callVars, cardVars, formVars, appVars>>
    \/ MountFetchShopsData
          /\ UNCHANGED <<panelVars, normVars, callVars, cardVars, formVars, appVars>>
    \/ MountFetchShopsError
          /\ UNCHANGED <<panelVars, normVars, callVars, cardVars, formVars, appVars>>

SpecDashboard == InitDashboard /\ [][NextDashboard]_vars

\* ------------------------------------ storage.objects of bucket products
\* two sellers, a buyer, and a client that is not signed in
Users == {"sellerA", "sellerB", "buyer", "anon"}

\* auth.uid() IS NOT NULL
SignedIn(user) == user # "anon"

\* EXISTS (SELECT 1 FROM profiles WHERE id = auth.uid() AND role = 'seller')
HasSellerProfile(user) == user \in {"sellerA", "sellerB"}

ObjectNames == 1..MaxObjects

\* WITH CHECK of "Sellers can upload product images"
MayInsertObject(user) == SignedIn(user) /\ HasSellerProfile(user)

\* USING of "Sellers can update their product images"
MayUpdateObject(user, object) == SignedIn(user) /\ HasSellerProfile(user)

\* USING of "Sellers can delete their product images"
MayDeleteObject(user, object) == SignedIn(user) /\ HasSellerProfile(user)

\* a client uploads an image under a free name; storage records the
\* uploader as the owner
StorageInsert ==
    \E user \in Users : \E name \in ObjectNames :
        /\ \A object \in objects : object.name # name
        /\ IF MayInsertObject(user)
           THEN objects' = objects \cup
                    {[name |-> name, owner |-> user, content |-> user]}
           ELSE UNCHANGED objects
        /\ storageOp' = [op |-> "insert", by |-> user, owner |-> user,
                         done |-> MayInsertObject(user)]

\* a client replaces the content of an image
StorageUpdate ==
    \E user \in Users : \E object \in objects :
        /\ IF MayUpdateObject(user, object)
           THEN objects' = (objects \ {object}) \cup
                    {[object EXCEPT !.content = user]}
           ELSE UNCHANGED objects
        /\ storageOp' = [op |-> "update", by |-> user, owner |-> object.owner,
                         done |-> MayUpdateObject(user, object)]

\* a client removes an image
StorageDelete ==
    \E user \in Users : \E object \in objects :
        /\ IF MayDeleteObject(user, object)
           THEN objects' = objects \ {object}
           ELSE UNCHANGED objects
        /\ storageOp' = [op |-> "delete", by |-> user, owner |-> object.owner,
                         done |-> MayDeleteObject(user, object)]

\* the bucket as the migration creates it
InitStorage ==
    /\ InitStorageIdle
    /\ InitPanelIdle
    /\ InitNormIdle
    /\ InitShopsIdle
    /\ InitViewIdle
    /\ InitShopFormIdle
    /\ InitProductFormIdle
    /\ InitAppIdle

NextStorage ==
    \/ StorageInsert
          /\ UNCHANGED <<panelVars, normVars, shopVars, viewVars,
                         shopFormVars, productFormVars, appVars>>
    \/ StorageUpdate
          /\ UNCHANGED <<panelVars, normVars, shopVars, viewVars,
                         shopFormVars, productFormVars, appVars>>
    \/ StorageDelete
          /\ UNCHANGED <<panelVars, normVars, shopVars, viewVars,
                         shopFormVars, productFormVars, appVars>>

SpecStorage == InitStorage /\ [][NextStorage]_vars

\* ------------------------------------------- products row level security
ShopIds == 1..MaxShopRows
ProductIds == 1..MaxProductRows

\* the users a seller_id can name: shops.seller_id references profiles(id)
Profiles == Users \ {"anon"}

\* values of shops.shop_name
ShopNames == {"a", "b"}

\* SELECT 1 FROM shops WHERE shops.id = products.shop_id
\*                       AND shops.seller_id = auth.uid()
OwnsShopOf(user, product) ==
    \E shop \in shopsTable :
        shop.id = product.shop_id /\ shop.seller_id = user

\* WITH CHECK of "Sellers can create their shop"
MayInsertShop(user, shop) ==
    SignedIn(user) /\ HasSellerProfile(user) /\ shop.seller_id = user

\* USING of "Sellers can update own shop"; a policy without WITH CHECK
\* applies its USING expression to the updated row as well
MayUpdateShop(user, old, new) ==
    SignedIn(user) /\ old.seller_id = user /\ new.seller_id = user

\* USING of "Sellers can delete own shop"
MayDeleteShop(user, shop) == SignedIn(user) /\ shop.seller_id = user

\* WITH CHECK of "Sellers can create products for their shop"
MayInsertProduct(user, product) == SignedIn(user) /\ OwnsShopOf(user, product)

\* USING of "Sellers can update products in their shop", applied to the
\* existing row only
MayUpdateProductUsingOnly(user, old, new) ==
    SignedIn(user) /\ OwnsShopOf(user, old)

\* USING of "Sellers can update products in their shop"; the policy has no
\* WITH CHECK, so the USING expression is applied to the updated row too
MayUpdateProduct(user, old, new) ==
    SignedIn(user) /\ OwnsShopOf(user, old) /\ OwnsShopOf(user, new)

\* USING of "Sellers can delete products in their shop"
MayDeleteProduct(user, product) == SignedIn(user) /\ OwnsShopOf(user, product)

\* the seller_id values of the shops with the given ids
SellersOf(shopIds) ==
    {shop.seller_id : shop \in {s \in shopsTable : s.id \in shopIds}}

\* a client inserts a shops row naming any profile as its seller
ShopsInsert ==
    \E user \in Users : \E id \in ShopIds : \E seller \in Profiles :
        LET shop == [id |-> id, seller_id |-> seller, shop_name |-> "a"] IN
        /\ \A s \in shopsTable : s.id # id /\ s.seller_id # seller
        /\ shopsTable' = IF MayInsertShop(user, shop)
                         THEN shopsTable \cup {shop}
                         ELSE shopsTable
        /\ UNCHANGED <<productsTable, productsOp>>

\* a client updates a shops row, seller_id included
ShopsUpdate ==
    \E user \in Users : \E old \in shopsTable : \E seller \in Profiles :
    \E name \in ShopNames :
        LET new == [old EXCEPT !.seller_id = seller, !.shop_name = name] IN
        /\ \A s \in shopsTable \ {old} : s.seller_id # seller
        /\ shopsTable' = IF MayUpdateShop(user, old, new)
                         THEN (shopsTable \ {old}) \cup {new}
                         ELSE shopsTable
        /\ UNCHANGED <<productsTable, productsOp>>

\* a client deletes a shops row; its products go with it (ON DELETE CASCADE)
ShopsDelete ==
    \E user \in Users : \E shop \in shopsTable :
        /\ IF MayDeleteShop(user, shop)
           THEN /\ shopsTable' = shopsTable \ {shop}
                /\ productsTable' =
                       {p \in productsTable : p.shop_id # shop.id}
           ELSE UNCHANGED <<shopsTable, productsTable>>
        /\ UNCHANGED productsOp

\* a client inserts a products row into any existing shop
ProductsInsert ==
    \E user \in Users : \E id \in ProductIds : \E shop \in shopsTable :
        LET product == [id |-> id, shop_id |-> shop.id] IN
        /\ \A p \in productsTable : p.id # id
        /\ productsTable' = IF MayInsertProduct(user, product)
                            THEN productsTable \cup {product}
                            ELSE productsTable
        /\ productsOp' = [op |-> "insert", by |-> user,
                          sellers |-> SellersOf({shop.id}),
                          done |-> MayInsertProduct(user, product)]
        /\ UNCHANGED shopsTable

\* a client updates a products row, shop_id included
ProductsUpdate ==
    \E user \in Users : \E old \in productsTable : \E shop \in shopsTable :
        LET new == [old EXCEPT !.shop_id = shop.id] IN
        /\ productsTable' = IF MayUpdateProduct(user, old, new)
                            THEN (productsTable \ {old}) \cup {new}
                            ELSE productsTable
        /\ productsOp' = [op |-> "update", by |-> user,
                          sellers |-> SellersOf({old.shop_id, new.shop_id}),
                          done |-> MayUpdateProduct(user, old, new)]
        /\ UNCHANGED shopsTable

\* a client deletes a products row
ProductsDelete ==
    \E user \in Users : \E product \in productsTable :
        /\ productsTable' = IF MayDeleteProduct(user, product)
                            THEN productsTable \ {product}
                            ELSE productsTable
        /\ productsOp' = [op |-> "delete", by |-> user,
                          sellers |-> SellersOf({product.shop_id}),
                          done |-> MayDeleteProduct(user, product)]
        /\ UNCHANGED shopsTable

\* the tables as the migration creates them
InitRls ==
    /\ InitRlsIdle
    /\ InitRestOfRls

NextRls ==
    \/ ShopsInsert /\ UNCHANGED restOfRls
    \/ ShopsUpdate /\ UNCHANGED restOfRls
    \/ ShopsDelete /\ UNCHANGED restOfRls
    \/ ProductsInsert /\ UNCHANGED restOfRls
    \/ ProductsUpdate /\ UNCHANGED restOfRls
    \/ ProductsDelete /\ UNCHANGED restOfRls

SpecRls == InitRls /\ [][NextRls]_vars

\* ------------------------------------------------- AuthProvider and Auth
\* u1 has an account and a profile; u2 is the account handleSignUp creates
Accounts == {"u1", "u2"}

\* user_role
Roles == {"buyer", "seller"}

\* null where the other values are strings (a user id, a role)
None == "null"

\* session?.user ?? null
UserOf(session) == IF session = Null THEN None ELSE session.user

\* profiles.select("role").eq("id", id).single(): the role of the one row,
\* or null when no row matches
SelectRole(id) ==
    IF \E profile \in profilesTable : profile.id = id
    THEN (CHOOSE profile \in profilesTable : profile.id = id).role
    ELSE None

\* the effect of the Auth page: with user and userRole both set it
\* navigates to the dashboard of the role; it runs while Auth is mounted
AuthEffect(currentUser, role) ==
    IF route = "/auth" /\ currentUser # None /\ role # None
    THEN (IF role = "buyer" THEN "/buyer" ELSE "/seller")
    ELSE route

\* setUserRole(profile?.role ?? null) at the end of a role lookup
ApplyRole(lookup) == lookup.role

\* the callback handed to onAuthStateChange
OnAuthStateChange(session) ==
    /\ ctxSession' = session
    /\ ctxUser' = UserOf(session)
    /\ IF UserOf(session) # None
       THEN /\ lookups' = Append(lookups,
                    [id |-> session.user, at |-> "timer", role |-> None])
            /\ UNCHANGED <<userRole, authLoading>>
            /\ route' = AuthEffect(UserOf(session), userRole)
       ELSE /\ userRole' = None
            /\ authLoading' = FALSE
            /\ UNCHANGED <<lookups, route>>

\* getSession() resolves with the session the client has stored
GetSessionResolves ==
    /\ pcGetSession = "pending"
    /\ pcGetSession' = "done"
    /\ ctxSession' = authStore
    /\ ctxUser' = UserOf(authStore)
    /\ IF UserOf(authStore) # None
       THEN /\ Len(lookups) < MaxLookups
            /\ lookups' = Append(lookups,
                    [id |-> authStore.user, at |-> "sent", role |-> None])
            /\ UNCHANGED authLoading
       ELSE /\ authLoading' = FALSE
            /\ UNCHANGED lookups
    /\ route' = AuthEffect(UserOf(authStore), userRole)
    /\ UNCHANGED <<authStore, profilesTable, userRole, pcSignOut, signUp>>

\* the setTimeout(0) callback of a lookup runs and sends the select
LookupTimerFires(i) ==
    /\ lookups[i].at = "timer"
    /\ lookups' = [lookups EXCEPT ![i].at = "sent"]
    /\ UNCHANGED <<authStore, profilesTable, ctxUser, ctxSession, userRole,
                   authLoading, pcSignOut, signUp, route, pcGetSession>>

\* the database answers the select of a lookup
LookupAnswered(i) ==
    /\ lookups[i].at = "sent"
    /\ lookups' = [lookups EXCEPT ![i].at = "answered",
                                  ![i].role = SelectRole(lookups[i].id)]
    /\ UNCHANGED <<authStore, profilesTable, ctxUser, ctxSession, userRole,
                   authLoading, pcSignOut, signUp, route, pcGetSession>>

\* the continuation of a lookup: setUserRole, setLoading(false)
LookupResolves(i) ==
    /\ lookups[i].at = "answered"
    /\ userRole' = ApplyRole(lookups[i])
    /\ authLoading' = FALSE
    /\ lookups' = [k \in 1..(Len(lookups) - 1) |->
                      IF k < i THEN lookups[k] ELSE lookups[k + 1]]
    /\ route' = AuthEffect(ctxUser, ApplyRole(lookups[i]))
    /\ UNCHANGED <<authStore, profilesTable, ctxUser, ctxSession,
                   pcSignOut, signUp, pcGetSession>>

\* handleSignIn with the credentials of an account that exists:
\* signInWithPassword stores the session and reports SIGNED_IN
SignIn ==
    \E id \in Accounts :
        /\ route = "/auth"
        /\ signUp.at \in {"idle", "done"}
        /\ pcSignOut = "idle"
        /\ id = "u1" \/ signUp.at = "done"
        /\ Len(lookups) < MaxLookups
        /\ authStore' = [user |-> id]
        /\ OnAuthStateChange([user |-> id])
        /\ UNCHANGED <<profilesTable, pcSignOut, signUp, pcGetSession>>

\* the client refreshes the token of the stored session and reports it
\* to the onAuthStateChange callback
TokenRefreshed ==
    /\ authStore # Null
    /\ pcGetSession = "done"
    /\ pcSignOut = "idle"
    /\ Len(lookups) < MaxLookups
    /\ OnAuthStateChange(authStore)
    /\ UNCHANGED <<authStore, profilesTable, pcSignOut, signUp, pcGetSession>>

\* handleSignUp up to the await of auth.signUp, with the role chosen
SignUpStart ==
    \E role \in Roles :
        /\ route = "/auth"
        /\ signUp.at = "idle"
        /\ pcSignOut = "idle"
        /\ signUp' = [at |-> "awaitSignUp", role |-> role]
        /\ UNCHANGED <<authStore, profilesTable, ctxUser, ctxSession,
                       userRole, authLoading, lookups, pcSignOut, route,
                       pcGetSession>>

\* auth.signUp creates the account, stores its session and reports
\* SIGNED_IN; handleSignUp goes on to send the profiles insert
SignUpAccountCreated ==
    /\ signUp.at = "awaitSignUp"
    /\ Len(lookups) < MaxLookups
    /\ authStore' = [user |-> "u2"]
    /\ OnAuthStateChange([user |-> "u2"])
    /\ signUp' = [signUp EXCEPT !.at = "awaitInsert"]
    /\ UNCHANGED <<profilesTable, pcSignOut, pcGetSession>>

\* auth.signUp answers with an error: the catch block toasts
SignUpRejected ==
    /\ signUp.at = "awaitSignUp"
    /\ signUp' = [at |-> "idle", role |-> None]
    /\ UNCHANGED <<authStore, profilesTable, ctxUser, ctxSession, userRole,
                   authLoading, lookups, pcSignOut, route, pcGetSession>>

\* the database runs the profiles insert of handleSignUp
ProfileInserted ==
    /\ signUp.at = "awaitInsert"
    /\ profilesTable' = profilesTable \cup {[id |-> "u2", role |-> signUp.role]}
    /\ signUp' = [signUp EXCEPT !.at = "inserted"]
    /\ UNCHANGED <<authStore, ctxUser, ctxSession, userRole, authLoading,
                   lookups, pcSignOut, route, pcGetSession>>

\* handleSignUp after the insert: the "Account created!" toast
SignUpReturns ==
    /\ signUp.at = "inserted"
    /\ signUp' = [signUp EXCEPT !.at = "done"]
    /\ UNCHANGED <<authStore, profilesTable, ctxUser, ctxSession, userRole,
                   authLoading, lookups, pcSignOut, route, pcGetSession>>

\* signOut up to its await
SignOutStart ==
    /\ pcSignOut = "idle"
    /\ ctxUser # None
    /\ signUp.at \in {"idle", "done"}
    /\ pcSignOut' = "awaiting"
    /\ UNCHANGED <<authStore, profilesTable, ctxUser, ctxSession, userRole,
                   authLoading, lookups, signUp, route, pcGetSession>>

\* auth.signOut drops the stored session and reports SIGNED_OUT
SignOutServer ==
    /\ pcSignOut = "awaiting"
    /\ pcSignOut' = "resolved"
    /\ authStore' = Null
    /\ OnAuthStateChange(Null)
    /\ UNCHANGED <<profilesTable, signUp, pcGetSession>>

\* signOut after its await
SignOutReturns ==
    /\ pcSignOut = "resolved"
    /\ pcSignOut' = "idle"
    /\ ctxUser' = None
    /\ ctxSession' = Null
    /\ userRole' = None
    /\ route' = "/"
    /\ UNCHANGED <<authStore, profilesTable, authLoading, lookups, signUp,
                   pcGetSession>>

\* the visitor opens the Auth page, whose effect runs on mount
OpenAuthPage ==
    /\ route = "/"
    /\ route' = IF ctxUser # None /\ userRole # None
                THEN (IF userRole = "buyer" THEN "/buyer" ELSE "/seller")
                ELSE "/auth"
    /\ UNCHANGED <<authStore, profilesTable, ctxUser, ctxSession, userRole,
                   authLoading, lookups, pcSignOut, signUp, pcGetSession>>

\* AuthProvider has mounted on the Auth page: getSession is pending, and
\* the client may hold the session of u1 from an earlier visit
InitAuth ==
    /\ authStore \in {Null, [user |-> "u1"]}
    /\ \E role \in Roles : profilesTable = {[id |-> "u1", role |-> role]}
    /\ ctxUser = None
    /\ ctxSession = Null
    /\ userRole = None
    /\ authLoading = TRUE
    /\ lookups = <<>>
    /\ pcSignOut = "idle"
    /\ signUp = [at |-> "idle", role |-> "null"]
    /\ route = "/auth"
    /\ pcGetSession = "pending"
    /\ InitRestOfAuth

NextAuth ==
    \/ GetSessionResolves /\ UNCHANGED restOfAuth
    \/ \E i \in 1..Len(lookups) :
          LookupTimerFires(i) /\ UNCHANGED restOfAuth
    \/ \E i \in 1..Len(lookups) :
          LookupAnswered(i) /\ UNCHANGED restOfAuth
    \/ \E i \in 1..Len(lookups) :
          LookupResolves(i) /\ UNCHANGED restOfAuth
    \/ SignIn /\ UNCHANGED restOfAuth
    \/ TokenRefreshed /\ UNCHANGED restOfAuth
    \/ SignUpStart /\ UNCHANGED restOfAuth
    \/ SignUpAccountCreated /\ UNCHANGED restOfAuth
    \/ SignUpRejected /\ UNCHANGED restOfAuth
    \/ ProfileInserted /\ UNCHANGED restOfAuth
    \/ SignUpReturns /\ UNCHANGED restOfAuth
    \/ SignOutStart /\ UNCHANGED restOfAuth
    \/ SignOutServer /\ UNCHANGED restOfAuth
    \/ SignOutReturns /\ UNCHANGED restOfAuth
    \/ OpenAuthPage /\ UNCHANGED restOfAuth

SpecAuth == InitAuth /\ [][NextAuth]_vars

\* ----------------------------------------- ReviewForm and ShopCard rating
\* reviewSchema: rating is at most 5
MaxRating == 5

\* the stars ReviewForm offers; 0 is its state before a star is picked
Stars == 0..MaxRating

\* the buyer using ReviewForm and another buyer, on another client
Buyers == {"b1", "b2"}

\* the comments typed
Comments == {"", "x"}

\* reviewSchema.parse succeeds
reviewSchema(form) == form.rating >= 1 /\ form.rating <= MaxRating

\* the reviews rows of a (shop_id, buyer_id) pair; the model has one shop
RowsOf(buyer) == {row \in reviewsTable : row.buyer_id = buyer}

\* CHECK (rating >= 1 AND rating <= 5)
RatingCheck(row) == row.rating >= 1 /\ row.rating <= 5

\* UNIQUE(shop_id, buyer_id) lets the new row in
UniqueCheck(row) == RowsOf(row.buyer_id) = {}

\* the value of the id column of a new row: DEFAULT gen_random_uuid()
NewReviewId == Cardinality(reviewsTable) + 1

\* upsert(values) with no onConflict option: INSERT ... ON CONFLICT on the
\* primary key DO UPDATE.  The values carry no id, so the row gets a fresh
\* one, no row conflicts on it, and the statement is a plain insert, which
\* the other constraints of the table accept or refuse.
Upsert(values) ==
    LET row == [id |-> NewReviewId, buyer_id |-> values.buyer_id,
                rating |-> values.rating, comment |-> values.comment]
    IN  IF RatingCheck(row) /\ UniqueCheck(row)
        THEN [error |-> FALSE, table |-> reviewsTable \cup {row}]
        ELSE [error |-> TRUE, table |-> reviewsTable]

RECURSIVE SumOfRatings(_)
\* data.reduce((acc, r) => acc + r.rating, 0)
SumOfRatings(rows) ==
    IF rows = {} THEN 0
    ELSE LET row == CHOOSE r \in rows : TRUE
         IN  row.rating + SumOfRatings(rows \ {row})

\* averageRating and reviewCount as fetchReviews computes them from data
StatsOf(rows) ==
    [averageRating |-> Quotient(SumOfRatings(rows), Cardinality(rows)),
     reviewCount |-> Cardinality(rows)]

\* setRating from a star
PickStar ==
    \E star \in Stars \ {0} :
        /\ pcReview.at = "idle"
        /\ reviewForm' = [reviewForm EXCEPT !.rating = star]
        /\ UNCHANGED <<reviewsTable, pcReview, reviewDone, ratingFetches,
                       averageRating, reviewCount, sinceSave>>

\* setComment from the textarea
TypeComment ==
    \E comment \in Comments :
        /\ pcReview.at = "idle"
        /\ reviewForm' = [reviewForm EXCEPT !.comment = comment]
        /\ UNCHANGED <<reviewsTable, pcReview, reviewDone, ratingFetches,
                       averageRating, reviewCount, sinceSave>>

\* ReviewForm.handleSubmit up to the await of the upsert; a form the
\* schema refuses ends in the validation toast
ReviewSubmit ==
    /\ pcReview.at = "idle"
    /\ IF reviewSchema(reviewForm)
       THEN /\ pcReview' = [at |-> "awaiting",
                            values |-> [buyer_id |-> "b1",
                                        rating |-> reviewForm.rating,
                                        comment |-> reviewForm.comment],
                            had |-> RowsOf("b1") # {}]
            /\ UNCHANGED reviewDone
       ELSE /\ reviewDone' = [toast |-> "Validation error", had |-> FALSE,
                              values |-> Null]
            /\ UNCHANGED pcReview
    /\ UNCHANGED <<reviewsTable, reviewForm, ratingFetches, averageRating,
                   reviewCount, sinceSave>>

\* the database runs the upsert
UpsertRuns ==
    /\ pcReview.at = "awaiting"
    /\ LET result == Upsert(pcReview.values) IN
        /\ reviewsTable' = result.table
        /\ pcReview' = [pcReview EXCEPT
                           !.at = IF result.error THEN "error" ELSE "saved"]
        /\ sinceSave' = IF result.error THEN sinceSave
                        ELSE {StatsOf(result.table)}
    /\ UNCHANGED <<reviewForm, reviewDone, ratingFetches, averageRating,
                   reviewCount>>

\* handleSubmit after the await, upsert accepted: the success toast and
\* onSaved(), which is ShopCard's fetchReviews
ReviewSaved ==
    /\ pcReview.at = "saved"
    /\ Len(ratingFetches) < MaxCalls
    /\ reviewDone' = [toast |-> "Review submitted successfully!",
                      had |-> pcReview.had, values |-> pcReview.values]
    /\ pcReview' = [at |-> "idle"]
    /\ ratingFetches' = Append(ratingFetches, [at |-> "sent", rows |-> {}])
    /\ UNCHANGED <<reviewsTable, reviewForm, averageRating, reviewCount,
                   sinceSave>>

\* handleSubmit after the await, upsert refused: the catch block
ReviewRefused ==
    /\ pcReview.at = "error"
    /\ reviewDone' = [toast |-> "Error submitting review",
                      had |-> pcReview.had, values |-> pcReview.values]
    /\ pcReview' = [at |-> "idle"]
    /\ UNCHANGED <<reviewsTable, reviewForm, ratingFetches, averageRating,
                   reviewCount, sinceSave>>

\* the other buyer reviews the shop from another client
OtherBuyerReviews ==
    \E star \in Stars \ {0} :
        LET result == Upsert([buyer_id |-> "b2", rating |-> star,
                              comment |-> ""])
        IN  /\ ~result.error
            /\ reviewsTable' = result.table
            /\ sinceSave' = IF sinceSave = {} THEN {}
                            ELSE sinceSave \cup {StatsOf(result.table)}
            /\ UNCHANGED <<reviewForm, pcReview, reviewDone, ratingFetches,
                           averageRating, reviewCount>>

\* the database answers the select of a fetchReviews call
FetchReviewsAnswered(i) ==
    /\ ratingFetches[i].at = "sent"
    /\ ratingFetches' = [ratingFetches EXCEPT ![i].at = "answered",
                                              ![i].rows = reviewsTable]
    /\ UNCHANGED <<reviewsTable, reviewForm, pcReview, reviewDone,
                   averageRating, reviewCount, sinceSave>>

\* fetchReviews after its await
FetchReviewsReturns(i) ==
    /\ ratingFetches[i].at = "answered"
    /\ LET data == ratingFetches[i].rows IN
        IF Cardinality(data) > 0
        THEN /\ averageRating' = StatsOf(data).averageRating
             /\ reviewCount' = StatsOf(data).reviewCount
        ELSE UNCHANGED <<averageRating, reviewCount>>
    /\ ratingFetches' = [k \in 1..(Len(ratingFetches) - 1) |->
                            IF k < i THEN ratingFetches[k]
                            ELSE ratingFetches[k + 1]]
    /\ UNCHANGED <<reviewsTable, reviewForm, pcReview, reviewDone, sinceSave>>

\* the reviews a shop has when its card mounts
InitialReviews ==
    {{}} \cup
    {{[id |-> 1, buyer_id |-> buyer, rating |-> star, comment |-> ""]} :
        buyer \in Buyers, star \in {2, 4}}

\* ShopCard has mounted and its effect has called fetchReviews
InitReviews ==
    /\ reviewsTable \in InitialReviews
    /\ reviewForm = [rating |-> 0, comment |-> ""]
    /\ pcReview = [at |-> "idle"]
    /\ reviewDone = Null
    /\ ratingFetches = <<[at |-> "sent", rows |-> {}]>>
    /\ averageRating = Quotient(0, 1)
    /\ reviewCount = 0
    /\ sinceSave = {}
    /\ InitRestOfReview

NextReviews ==
    \/ PickStar /\ UNCHANGED restOfReview
    \/ TypeComment /\ UNCHANGED restOfReview
    \/ ReviewSubmit /\ UNCHANGED restOfReview
    \/ UpsertRuns /\ UNCHANGED restOfReview
    \/ ReviewSaved /\ UNCHANGED restOfReview
    \/ ReviewRefused /\ UNCHANGED restOfReview
    \/ OtherBuyerReviews /\ UNCHANGED restOfReview
    \/ \E i \in 1..Len(ratingFetches) :
          FetchReviewsAnswered(i) /\ UNCHANGED restOfReview
    \/ \E i \in 1..Len(ratingFetches) :
          FetchReviewsReturns(i) /\ UNCHANGED restOfReview

SpecReviews == InitReviews /\ [][NextReviews]_vars

\* ---------------------------------------- SellerDashboard and ProductList
\* ids of the products rows of the seller's shop, in order of creation
ListedIds == 1..MaxListed

\* values of products.name
ProductNames == {"a", "b"}

RECURSIVE OrderByCreatedDesc(_)
\* .order("created_at", { ascending: false }): ids grow with created_at
OrderByCreatedDesc(rows) ==
    IF rows = {} THEN <<>>
    ELSE LET newest == CHOOSE r \in rows : \A o \in rows : o.id <= r.id
         IN  <<newest>> \o OrderByCreatedDesc(rows \ {newest})

\* the id of the next products row
NewProductId == Cardinality(sellerProducts) + deletedProducts + 1

\* fetchProducts up to its await
FetchProductsCall == [at |-> "sent", data |-> <<>>]

\* the seller clicks "Add Product"
OpenAddDialog ==
    /\ ~productDialogOpen
    /\ productDialogOpen' = TRUE
    /\ UNCHANGED <<sellerProducts, deletedProducts, pcAddProduct,
                   listProducts, editingProduct, listDialogOpen,
                   listFetches, lastAdded>>

\* ProductForm.handleSubmit of the Add Product dialog up to its await
AddSubmit ==
    \E name \in ProductNames :
        /\ productDialogOpen
        /\ pcAddProduct.at = "idle"
        /\ NewProductId \in ListedIds
        /\ pcAddProduct' = [at |-> "awaiting", name |-> name]
        /\ UNCHANGED <<sellerProducts, deletedProducts, productDialogOpen,
                       listProducts, editingProduct, listDialogOpen,
                       listFetches, lastAdded>>

\* the database runs the insert
AddInsertRuns ==
    /\ pcAddProduct.at = "awaiting"
    /\ sellerProducts' = sellerProducts \cup
           {[id |-> NewProductId, name |-> pcAddProduct.name]}
    /\ pcAddProduct' = [at |-> "inserted", id |-> NewProductId]
    /\ UNCHANGED <<deletedProducts, productDialogOpen, listProducts,
                   editingProduct, listDialogOpen, listFetches, lastAdded>>

\* the database refuses the insert
AddInsertFails ==
    /\ pcAddProduct.at = "awaiting"
    /\ pcAddProduct' = [at |-> "refused"]
    /\ UNCHANGED <<sellerProducts, deletedProducts, productDialogOpen,
                   listProducts, editingProduct, listDialogOpen,
                   listFetches, lastAdded>>

\* handleSubmit after the insert: the success toast and onSaved(), which
\* is handleProductSaved
AddSaved ==
    /\ pcAddProduct.at = "inserted"
    /\ productDialogOpen' = FALSE
    /\ lastAdded' = pcAddProduct.id
    /\ pcAddProduct' = [at |-> "idle"]
    /\ UNCHANGED <<sellerProducts, deletedProducts, listProducts,
                   editingProduct, listDialogOpen, listFetches>>

\* handleSubmit after a refused insert: the error toast, dialog left open
AddRefused ==
    /\ pcAddProduct.at = "refused"
    /\ pcAddProduct' = [at |-> "idle"]
    /\ UNCHANGED <<sellerProducts, deletedProducts, productDialogOpen,
                   listProducts, editingProduct, listDialogOpen,
                   listFetches, lastAdded>>

\* the select of a fetchProducts call is answered
FetchProductsAnswered(i) ==
    /\ listFetches[i].at = "sent"
    /\ listFetches' = [listFetches EXCEPT
                          ![i].at = "answered",
                          ![i].data = OrderByCreatedDesc(sellerProducts)]
    /\ UNCHANGED <<sellerProducts, deletedProducts, productDialogOpen,
                   pcAddProduct, listProducts, editingProduct,
                   listDialogOpen, lastAdded>>

\* fetchProducts after its await: if (data) setProducts(data)
FetchProductsReturns(i) ==
    /\ listFetches[i].at = "answered"
    /\ listProducts' = listFetches[i].data
    /\ listFetches' = [k \in 1..(Len(listFetches) - 1) |->
                          IF k < i THEN listFetches[k]
                          ELSE listFetches[k + 1]]
    /\ UNCHANGED <<sellerProducts, deletedProducts, productDialogOpen,
                   pcAddProduct, editingProduct, listDialogOpen, lastAdded>>

\* ProductList.handleEdit on a listed product
handleEdit ==
    \E k \in 1..Len(listProducts) :
        /\ ~listDialogOpen
        /\ editingProduct' = listProducts[k]
        /\ listDialogOpen' = TRUE
        /\ UNCHANGED <<sellerProducts, deletedProducts, productDialogOpen,
                       pcAddProduct, listProducts, listFetches, lastAdded>>

\* the edit dialog's ProductForm updates the row and calls onSaved(),
\* which is ProductList.handleSaved
handleSaved ==
    \E name \in ProductNames :
        /\ listDialogOpen
        /\ editingProduct # Null
        /\ Len(listFetches) < MaxCalls
        /\ sellerProducts' =
               {IF row.id = editingProduct.id
                THEN [row EXCEPT !.name = name] ELSE row :
                    row \in sellerProducts}
        /\ listDialogOpen' = FALSE
        /\ editingProduct' = Null
        /\ listFetches' = Append(listFetches, FetchProductsCall)
        /\ UNCHANGED <<deletedProducts, productDialogOpen, pcAddProduct,
                       listProducts, lastAdded>>

\* ProductList.handleDelete on a listed product, confirmed and accepted
handleDelete ==
    \E k \in 1..Len(listProducts) :
        /\ Len(listFetches) < MaxCalls
        /\ \E row \in sellerProducts : row.id = listProducts[k].id
        /\ sellerProducts' =
               {row \in sellerProducts : row.id # listProducts[k].id}
        /\ deletedProducts' = deletedProducts + 1
        /\ listFetches' = Append(listFetches, FetchProductsCall)
        /\ UNCHANGED <<productDialogOpen, pcAddProduct, listProducts,
                       editingProduct, listDialogOpen, lastAdded>>

\* SellerDashboard has loaded the shop and ProductList has mounted: its
\* effect has called fetchProducts
InitList ==
    /\ sellerProducts \in {{}, {[id |-> 1, name |-> "a"]}}
    /\ deletedProducts = 0
    /\ productDialogOpen = FALSE
    /\ pcAddProduct = [at |-> "idle"]
    /\ listProducts = <<>>
    /\ editingProduct = Null
    /\ listDialogOpen = FALSE
    /\ listFetches = <<FetchProductsCall>>
    /\ lastAdded = 0
    /\ InitRestOfList

NextList ==
    \/ OpenAddDialog /\ UNCHANGED restOfList
    \/ AddSubmit /\ UNCHANGED restOfList
    \/ AddInsertRuns /\ UNCHANGED restOfList
    \/ AddInsertFails /\ UNCHANGED restOfList
    \/ AddSaved /\ UNCHANGED restOfList
    \/ AddRefused /\ UNCHANGED restOfList
    \/ \E i \in 1..Len(listFetches) :
          FetchProductsAnswered(i) /\ UNCHANGED restOfList
    \/ \E i \in 1..Len(listFetches) :
          FetchProductsReturns(i) /\ UNCHANGED restOfList
    \/ handleEdit /\ UNCHANGED restOfList
    \/ handleSaved /\ UNCHANGED restOfList
    \/ handleDelete /\ UNCHANGED restOfList

SpecList == InitList /\ [][NextList]_vars

\* ------------------------------------------- ProductForm.handleImageUpload
\* values typed into the name input
TypedNames == {"", "mango"}

\* values typed into the unit input; the form starts with "kg"
TypedUnits == {"kg", "piece"}

\* values typed into the price input
TypedPrices == {"", "50"}

\* values of image_url: none, a pasted URL, the public URL of an upload
PastedUrl == "https://pasted"
PublicUrl == "https://storage/products"

\* file.size > 5 * 1024 * 1024
TooLarge(file) == file.size > 5 * 1024 * 1024

\* the files the seller picks: a small one and one over 5 MB
Files == {[size |-> 1024], [size |-> 5 * 1024 * 1024 + 1]}

\* onChange of the name, category, price and unit inputs
EditProductField ==
    \E field \in {"name", "category", "price", "quantity_unit"} :
    \E value \in CASE field = "name" -> TypedNames
                   [] field = "category" -> {"fruit", "flower"}
                   [] field = "price" -> TypedPrices
                   [] OTHER -> TypedUnits :
        /\ uploadForm' = [uploadForm EXCEPT ![field] = value]
        /\ uploadEvent' = "edit"
        /\ UNCHANGED <<imagePreview, uploads>>

\* handleImageUrl with the URL the seller pasted
handleImageUrl ==
    /\ uploadForm' = [uploadForm EXCEPT !.image_url = PastedUrl]
    /\ imagePreview' = PastedUrl
    /\ uploadEvent' = "url"
    /\ UNCHANGED uploads

\* the remove button of the preview
RemoveImage ==
    /\ imagePreview # ""
    /\ imagePreview' = ""
    /\ uploadForm' = [uploadForm EXCEPT !.image_url = ""]
    /\ uploadEvent' = "removed"
    /\ UNCHANGED uploads

\* handleImageUpload up to its await: a file over 5 MB ends in the
\* "File too large" toast; otherwise the upload is sent, and the call
\* keeps the formData of the render it was made in
ImageUploadStart ==
    \E file \in Files :
        IF TooLarge(file)
        THEN /\ uploadEvent' = "tooLarge"
             /\ UNCHANGED <<uploadForm, imagePreview, uploads>>
        ELSE /\ Len(uploads) < MaxUploads
             /\ uploads' = Append(uploads,
                    [at |-> "sent", formData |-> uploadForm])
             /\ uploadEvent' = "started"
             /\ UNCHANGED <<uploadForm, imagePreview>>

\* storage accepts or refuses the upload
ImageUploadAnswered(i) ==
    \E at \in {"stored", "refused"} :
        /\ uploads[i].at = "sent"
        /\ uploads' = [uploads EXCEPT ![i].at = at]
        /\ uploadEvent' = "answered"
        /\ UNCHANGED <<uploadForm, imagePreview>>

\* setFormData({ ...formData, image_url: data.publicUrl }) with the
\* formData of the call
SpreadFormData(call) == [call.formData EXCEPT !.image_url = PublicUrl]

\* handleImageUpload after its await: the setters and the success toast,
\* or the "Upload failed" toast of the catch block
ImageUploadReturns(i) ==
    /\ uploads[i].at \in {"stored", "refused"}
    /\ IF uploads[i].at = "stored"
       THEN /\ uploadForm' = SpreadFormData(uploads[i])
            /\ imagePreview' = PublicUrl
            /\ uploadEvent' = "uploaded"
       ELSE /\ uploadEvent' = "failed"
            /\ UNCHANGED <<uploadForm, imagePreview>>
    /\ uploads' = [k \in 1..(Len(uploads) - 1) |->
                      IF k < i THEN uploads[k] ELSE uploads[k + 1]]

\* ProductForm as the Add Product dialog opens it (product = null)
InitUpload ==
    /\ uploadForm = [name |-> "", category |-> "fruit", price |-> "",
                     quantity_unit |-> "kg", image_url |-> ""]
    /\ imagePreview = ""
    /\ uploads = <<>>
    /\ uploadEvent = "mounted"
    /\ InitRestOfUpload

NextUpload ==
    \/ EditProductField /\ UNCHANGED restOfUpload
    \/ handleImageUrl /\ UNCHANGED restOfUpload
    \/ RemoveImage /\ UNCHANGED restOfUpload
    \/ ImageUploadStart /\ UNCHANGED restOfUpload
    \/ \E i \in 1..Len(uploads) :
          ImageUploadAnswered(i) /\ UNCHANGED restOfUpload
    \/ \E i \in 1..Len(uploads) :
          ImageUploadReturns(i) /\ UNCHANGED restOfUpload

SpecUpload == InitUpload /\ [][NextUpload]_vars

\* ------------------------------------------ ShopForm.getCurrentLocation
\* disabled={locationLoading || loading} of the "Use Current Location" button
LocationButtonDisabled == locationLoading \/ pcShopForm = "writing"

\* getCurrentLocation: setLocationLoading(true), and the position request
\* if the browser has navigator.geolocation
getCurrentLocation ==
    /\ ~LocationButtonDisabled
    /\ locationLoading' = TRUE
    /\ positionPending' = hasGeolocation
    /\ UNCHANGED <<hasGeolocation, locationEvent, shopFormVars>>

\* the success callback of getCurrentPosition
PositionCaptured ==
    \E lat \in Lats : \E lng \in Lngs :
        /\ positionPending
        /\ shopForm' = [shopForm EXCEPT !.latitude = Num(lat),
                                        !.longitude = Num(lng)]
        /\ locationLoading' = FALSE
        /\ positionPending' = FALSE
        /\ locationEvent' = "Location captured"
        /\ UNCHANGED <<hasGeolocation, pcShopForm, shopWrites, shopSaved>>

\* the error callback of getCurrentPosition
PositionError ==
    /\ positionPending
    /\ locationLoading' = FALSE
    /\ positionPending' = FALSE
    /\ locationEvent' = "Location error"
    /\ UNCHANGED <<hasGeolocation, shopFormVars>>

\* everything but ShopForm
aroundLocate ==
    <<panelVars, normVars, shopVars, viewVars, productFormVars, storageVars,
      rlsVars, authVars, reviewVars, listVars, uploadVars>>

\* ShopForm after construction without a shop, in a browser with or
\* without the geolocation capability
InitLocate ==
    /\ hasGeolocation \in BOOLEAN
    /\ locationLoading = FALSE
    /\ positionPending = FALSE
    /\ locationEvent = "none"
    /\ shopForm = [latitude |-> Num(0), longitude |-> Num(0), textsOk |-> FALSE]
    /\ pcShopForm = "editing"
    /\ shopWrites = <<>>
    /\ shopSaved = 0
    /\ InitPanelIdle
    /\ InitNormIdle
    /\ InitShopsIdle
    /\ InitViewIdle
    /\ InitProductFormIdle
    /\ InitStorageIdle
    /\ InitRlsIdle
    /\ InitAuthIdle
    /\ InitReviewIdle
    /\ InitListIdle
    /\ InitUploadIdle

NextLocate ==
    \/ getCurrentLocation /\ UNCHANGED aroundLocate
    \/ PositionCaptured /\ UNCHANGED aroundLocate
    \/ PositionError /\ UNCHANGED aroundLocate
    \/ TypeLatitude /\ UNCHANGED <<locateVars, aroundLocate>>
    \/ TypeLongitude /\ UNCHANGED <<locateVars, aroundLocate>>

SpecLocate == InitLocate /\ [][NextLocate]_vars

\* ------------------------------------------------ claims: AveragePricePanel
\* the panel has aggregated a fetched product list
Aggregated == pcPanel = "done"

ProductIdx == 1..Len(products)

\* indices of the fetched products with a given normalized name and category
MembersOf(normalizedName, category) ==
    {i \in ProductIdx :
        /\ normalizeProductName(products[i].name) = normalizedName
        /\ products[i].category = category}

\* name is normalizedName with only its first character upper-cased
IsDisplayOf(name, normalizedName) ==
    /\ Len(name) = Len(normalizedName)
    /\ \A k \in 1..Len(name) :
          name[k] = IF k = 1 THEN ToUpperChar(normalizedName[k])
                    ELSE normalizedName[k]

\* the output entries that stand for the group of product i
EntriesOf(i) ==
    {j \in 1..Len(averagePrices) :
        /\ IsDisplayOf(averagePrices[j].name,
                       normalizeProductName(products[i].name))
        /\ averagePrices[j].category = products[i].category}

RECURSIVE SumPrices(_)
SumPrices(idx) ==
    IF idx = {} THEN 0
    ELSE LET i == CHOOSE i \in idx : TRUE
         IN  products[i].price + SumPrices(idx \ {i})

\* C1: for a non-empty fetched list the number of output groups equals the
\* number of distinct (normalized name, category) pairs, and two products
\* share an output group exactly when they agree on both
GroupsAreDistinctPairs ==
    (Aggregated /\ products # <<>>) =>
        /\ Len(averagePrices) =
              Cardinality({<<normalizeProductName(products[i].name),
                             products[i].category>> : i \in ProductIdx})
        /\ \A i \in ProductIdx : Cardinality(EntriesOf(i)) = 1
        /\ \A i, j \in ProductIdx :
              (EntriesOf(i) = EntriesOf(j)) <=>
                  /\ normalizeProductName(products[i].name) =
                        normalizeProductName(products[j].name)
                  /\ products[i].category = products[j].category

\* two differently written names were folded into one group
GroupsAreDistinctPairsWitness ==
    /\ Aggregated
    /\ Len(products) = 2
    /\ products[1].name # products[2].name
    /\ Len(averagePrices) = 1

\* C2: every output group's avgPrice is the sum of the prices of exactly its
\* member products divided by their number, and shopCount is that number,
\* at least 1
AverageIsSumOverCount ==
    Aggregated =>
        \A i \in ProductIdx : \A j \in EntriesOf(i) :
            LET members == MembersOf(normalizeProductName(products[i].name),
                                     products[i].category)
                n == Cardinality(members)
                total == SumPrices(members)
            IN  /\ averagePrices[j].shopCount = n
                /\ n >= 1
                /\ averagePrices[j].avgPrice[1] * n =
                      total * averagePrices[j].avgPrice[2]
                /\ averagePrices[j].avgPrice[2] > 0

\* a group of two contributors whose average is not a whole number
AverageIsSumOverCountWitness ==
    /\ Aggregated
    /\ \E j \in 1..Len(averagePrices) :
          /\ averagePrices[j].shopCount = 2
          /\ averagePrices[j].avgPrice = <<3, 2>>

\* C3: normalizing a normalized name changes nothing
NormalizeIdempotent == pcNorm = "twice" => nameTwice = nameOnce

\* code point order of the characters
CodePoint(c) ==
    IF c = " " THEN 32
    ELSE IF c = "-" THEN 45
    ELSE IF c = "A" THEN 65
    ELSE IF c = "B" THEN 66
    ELSE IF c = "a" THEN 97
    ELSE 98

\* x does not compare greater than y, ordinally, ignoring case
RECURSIVE LeqIgnoringCase(_, _, _)
LeqIgnoringCase(x, y, i) ==
    IF i > Len(x) THEN TRUE
    ELSE IF i > Len(y) THEN FALSE
    ELSE IF CodePoint(ToLowerChar(x[i])) < CodePoint(ToLowerChar(y[i])) THEN TRUE
    ELSE IF CodePoint(ToLowerChar(x[i])) > CodePoint(ToLowerChar(y[i])) THEN FALSE
    ELSE LeqIgnoringCase(x, y, i + 1)

\* C4: the output groups are in ascending order of display name, compared
\* ignoring case
SortedByDisplayName ==
    Aggregated =>
        \A j \in 1..(Len(averagePrices) - 1) :
            LeqIgnoringCase(averagePrices[j].name, averagePrices[j + 1].name, 1)

\* the sort moved the group of the second product in front of the first's
SortedByDisplayNameWitness ==
    /\ Aggregated
    /\ Len(products) = 2
    /\ Len(averagePrices) = 2
    /\ averagePrices[1].name # averagePrices[2].name
    /\ EntriesOf(1) = {2}
    /\ EntriesOf(2) = {1}

\* C5: every output group's display name is the normalized name of its
\* products with only the first character upper-cased, whatever the casing
\* or punctuation of the members and whichever member came first
DisplayNameFromNormalized ==
    Aggregated =>
        /\ \A j \in 1..Len(averagePrices) : \E i \in ProductIdx : j \in EntriesOf(i)
        /\ \A i \in ProductIdx : EntriesOf(i) # {}

\* a group whose first member is written in upper case with punctuation and
\* whose second member is written differently
DisplayNameFromNormalizedWitness ==
    /\ Aggregated
    /\ Len(products) = 2
    /\ products[1].name = <<"A", "-">>
    /\ products[2].name = <<" ", "a">>
    /\ products[1].category = products[2].category
    /\ Len(averagePrices) = 1
    /\ averagePrices[1].name = <<"A">>

\* the output entry j carries category, count and total of exactly the
\* fetched products with that normalized name in that category
CarriesOwn(j, normalizedName, category) ==
    LET members == MembersOf(normalizedName, category)
    IN  /\ averagePrices[j].category = category
        /\ averagePrices[j].shopCount = Cardinality(members)
        /\ averagePrices[j].avgPrice[1] * Cardinality(members) =
              SumPrices(members) * averagePrices[j].avgPrice[2]

\* C6: products with the same normalized name in different categories end
\* up in two separate groups, each with its own category, total and count
CategoriesNotMerged ==
    Aggregated =>
        \A i, k \in ProductIdx :
            LET normalizedName == normalizeProductName(products[i].name)
            IN  (/\ normalizeProductName(products[k].name) = normalizedName
                 /\ products[i].category # products[k].category) =>
                    \E j, l \in 1..Len(averagePrices) :
                        /\ j # l
                        /\ IsDisplayOf(averagePrices[j].name, normalizedName)
                        /\ IsDisplayOf(averagePrices[l].name, normalizedName)
                        /\ CarriesOwn(j, normalizedName, products[i].category)
                        /\ CarriesOwn(l, normalizedName, products[k].category)

\* the same name once as fruit and once as flower, at different prices
CategoriesNotMergedWitness ==
    /\ Aggregated
    /\ Len(products) = 2
    /\ normalizeProductName(products[1].name) = normalizeProductName(products[2].name)
    /\ products[1].category = Fruit
    /\ products[2].category = Flower
    /\ products[1].price # products[2].price
    /\ Len(averagePrices) = 2

\* C7: an empty fetched list gives an empty list of groups and no error, and
\* the panel ends with loading false
EmptyInEmptyOut ==
    (Aggregated /\ products = <<>>) =>
        /\ averagePrices = <<>>
        /\ loading = FALSE
        /\ errorLogged = FALSE

\* the fetch of an empty products table has completed
EmptyInEmptyOutWitness ==
    /\ pcPanel = "done"
    /\ dbProducts = <<>>
    /\ products = <<>>
    /\ averagePrices = <<>>
    /\ loading = FALSE

\* --------------------------------------------------- claims: BuyerDashboard
\* fetchShops has stored a ranked list
Ranked == pcShops = "done"

\* the stored fields of a listed shop
StoredFields(shop) == [f \in DOMAIN shop \ {"distance"} |-> shop[f]]

\* C8: with a buyer coordinate every stored shop carries its distance from
\* the buyer, a number, and the distances never decrease along the list
SortedByDistance ==
    (Ranked /\ userLocation # Null) =>
        /\ \A j \in 1..Len(shops) :
              /\ "distance" \in DOMAIN shops[j]
              /\ shops[j].distance # NaN
              /\ shops[j].distance =
                    calculateDistance(userLocation.lat, userLocation.lng,
                                      shops[j].latitude, shops[j].longitude)
        /\ \A j \in 1..(Len(shops) - 1) :
              shops[j].distance <= shops[j + 1].distance

\* C9: the stored list is a permutation of the fetched rows with every
\* stored field unchanged, with or without a buyer coordinate
ShopsArePermutation ==
    Ranked =>
        /\ Len(shops) = Len(dbShops)
        /\ \A i \in 1..Len(dbShops) :
              Cardinality({j \in 1..Len(shops) :
                              StoredFields(shops[j]) = dbShops[i]}) =
              Cardinality({k \in 1..Len(dbShops) : dbShops[k] = dbShops[i]})

\* a ranking that reordered three shops at three different coordinates
ShopsArePermutationWitness ==
    /\ Ranked
    /\ userLocation # Null
    /\ Len(dbShops) = 3
    /\ shops[1].id = 3
    /\ shops[2].id = 1
    /\ shops[3].id = 2
    /\ dbShops[1].latitude # userLocation.lat
    /\ dbShops[2].longitude # userLocation.lng

\* C10: without a buyer coordinate the stored list is the fetched list in
\* its fetched order and no shop has a distance
NoLocationKeepsOrder ==
    (Ranked /\ userLocation = Null) =>
        /\ shops = dbShops
        /\ \A j \in 1..Len(shops) : "distance" \notin DOMAIN shops[j]

\* three shops fetched without a buyer coordinate
NoLocationKeepsOrderWitness ==
    /\ Ranked
    /\ userLocation = Null
    /\ Len(shops) = 3
    /\ shops[1].id = 1
    /\ shops[3].id = 3
    /\ shops[1].latitude # shops[2].latitude

\* where the row with this id stands in the fetched list
FetchedPosition(id) == CHOOSE i \in 1..Len(dbShops) : dbShops[i].id = id

\* C11: two shops stored with equal distances from the buyer stand in the
\* stored list in the order they had in the fetched list
TiesKeepFetchedOrder ==
    (Ranked /\ userLocation # Null) =>
        \A j \in 1..Len(shops) : \A l \in 1..Len(shops) :
            (j < l /\ shops[j].distance = shops[l].distance) =>
                FetchedPosition(shops[j].id) < FetchedPosition(shops[l].id)

\* the shop fetched last is the nearest and moved to the front; the two
\* shops fetched before it lie at different places equally far away
TiesKeepFetchedOrderWitness ==
    /\ Ranked
    /\ userLocation # Null
    /\ Len(shops) = 3
    /\ shops[1].id = 3
    /\ shops[2].id = 1
    /\ shops[3].id = 2
    /\ shops[1].distance < shops[2].distance
    /\ shops[2].distance = shops[3].distance
    /\ shops[2].distance # NaN
    /\ shops[2].longitude # shops[3].longitude

\* --------------------------------------- claims: more than one invocation
\* an invocation of fn has run to its end with rows
ReturnedRows(fn) ==
    {calls[i].rows : i \in {k \in 1..Len(calls) :
                              /\ calls[k].fn = fn
                              /\ calls[k].at = "returned"
                              /\ calls[k].outcome = "rows"}}

\* C12: once an invocation has returned with rows, averagePrices is the
\* aggregation of exactly the rows one invocation fetched (one group for
\* each distinct pair, counting and averaging exactly its members among
\* those rows) and shops holds exactly the rows one invocation fetched,
\* each with the distance computed for it or with none; nothing of an
\* earlier invocation is left in either
RecomputedFromScratch ==
    /\ ReturnedRows("fetchAveragePrices") # {} =>
          /\ products \in ReturnedRows("fetchAveragePrices")
          /\ Len(averagePrices) =
                Cardinality({<<normalizeProductName(products[i].name),
                               products[i].category>> : i \in ProductIdx})
          /\ \A i \in ProductIdx :
                /\ EntriesOf(i) # {}
                /\ \A j \in EntriesOf(i) :
                      LET members ==
                              MembersOf(normalizeProductName(products[i].name),
                                        products[i].category)
                      IN  /\ averagePrices[j].shopCount = Cardinality(members)
                          /\ averagePrices[j].avgPrice[1] * Cardinality(members) =
                                SumPrices(members) * averagePrices[j].avgPrice[2]
    /\ ReturnedRows("fetchShops") # {} =>
          /\ shopsData \in ReturnedRows("fetchShops")
          /\ Len(shops) = Len(shopsData)
          /\ \A i \in 1..Len(shopsData) :
                \E j \in 1..Len(shops) : StoredFields(shops[j]) = shopsData[i]
          /\ \A j \in 1..Len(shops) :
                IF userLocation = Null
                THEN "distance" \notin DOMAIN shops[j]
                ELSE /\ "distance" \in DOMAIN shops[j]
                     /\ shops[j].distance =
                           calculateDistance(userLocation.lat, userLocation.lng,
                                             shops[j].latitude, shops[j].longitude)

\* a second invocation fetched one row more than the first, in the first
\* row's group, and the panel shows that group with two contributors
RecomputedFromScratchWitness ==
    /\ Len(calls) = 2
    /\ calls[1].fn = "fetchAveragePrices"
    /\ calls[1].at = "returned"
    /\ calls[2].at = "returned"
    /\ Len(calls[1].rows) = 1
    /\ Len(calls[2].rows) = 2
    /\ products = calls[2].rows
    /\ Len(averagePrices) = 1
    /\ averagePrices[1].shopCount = 2

StoredPosition(id) == CHOOSE j \in 1..Len(shops) : shops[j].id = id

\* C14: rendering leaves the stored list as it is; every card stands for a
\* stored shop and the cards follow the stored order; the badge of a shop
\* stored with a distance below 1 km gives that distance in metres, the
\* badge of a shop stored with any other distance is in kilometres
BadgeLeavesShopsAlone ==
    [][cards' # cards =>
          /\ shops' = shops
          /\ \A k \in 1..Len(cards') :
                \E j \in 1..Len(shops) :
                    /\ shops[j].id = cards'[k].id
                    /\ "distance" \in DOMAIN shops[j] =>
                          IF shops[j].distance # NaN /\ shops[j].distance < 1000
                          THEN /\ cards'[k].badge.unit = "m"
                               /\ cards'[k].badge.amount = shops[j].distance
                          ELSE cards'[k].badge.unit = "km"
          /\ \A k \in 1..Len(cards') : \A l \in 1..Len(cards') :
                k < l => StoredPosition(cards'[k].id) < StoredPosition(cards'[l].id)
    ]_vars

\* of three stored shops the search shows two: 400 m away and 2.5 km away
BadgeLeavesShopsAloneWitness ==
    /\ Len(shops) = 3
    /\ Len(cards) = 2
    /\ \A k \in 1..2 : "unit" \in DOMAIN cards[k].badge
    /\ cards[1].badge = [amount |-> 400, decimals |-> 0, unit |-> "m"]
    /\ cards[2].badge = [amount |-> 25, decimals |-> 1, unit |-> "km"]
    /\ shops[3].id = cards[2].id
    /\ shops[3].distance = 2500

\* ---------------------------------------------------------- claims: forms
\* C15: every row ShopForm sends to the shops table has a latitude that is
\* a number from -90 to 90 and a longitude that is a number from -180 to
\* 180; a submission is between its write and onSaved only with such
\* coordinates in the form, a rejected submission leaves them out of range
\* or other fields invalid, and onSaved is called at most once a write
ShopWritesInRange ==
    /\ \A k \in 1..Len(shopWrites) :
          /\ ~shopWrites[k].latitude.nan
          /\ shopWrites[k].latitude.value \in -90..90
          /\ ~shopWrites[k].longitude.nan
          /\ shopWrites[k].longitude.value \in -180..180
    /\ shopSaved <= Len(shopWrites)
    /\ pcShopForm \in {"writing", "saved", "failed"} =>
          /\ Len(shopWrites) >= 1
          /\ shopWrites[Len(shopWrites)].latitude = shopForm.latitude
          /\ shopWrites[Len(shopWrites)].longitude = shopForm.longitude
    /\ (pcShopForm = "rejected" /\ shopForm.textsOk) =>
          \/ shopForm.latitude.nan
          \/ shopForm.latitude.value \notin -90..90
          \/ shopForm.longitude.nan
          \/ shopForm.longitude.value \notin -180..180

\* a shop at latitude 90 was written and saved; the form was then
\* submitted with latitude 91 and rejected, with no further write
ShopWritesInRangeWitness ==
    /\ pcShopForm = "rejected"
    /\ shopForm.textsOk
    /\ shopForm.latitude = Num(91)
    /\ shopForm.longitude = Num(180)
    /\ Len(shopWrites) = 1
    /\ shopWrites[1].latitude = Num(90)
    /\ shopSaved = 1

\* C16: every row ProductForm sends to the products table has the category
\* fruit or flower and a price that is a number above 0 and at most
\* 999999; a submission with a price text that is no number, or with a
\* price of zero or below, is rejected without a write, and onSaved is
\* called at most once a write
ProductWritesValid ==
    /\ \A k \in 1..Len(productWrites) :
          /\ productWrites[k].category \in {Fruit, Flower}
          /\ ~productWrites[k].price.nan
          /\ productWrites[k].price.value \in 1..999999
    /\ productSaved <= Len(productWrites)
    /\ pcProductForm \in {"writing", "saved", "failed"} =>
          /\ Len(productWrites) >= 1
          /\ productForm.price # <<>>
          /\ \A i \in 1..Len(productForm.price) : IsDigit(productForm.price[i])
    /\ (pcProductForm = "rejected" /\ productForm.textsOk) =>
          \/ productForm.price = <<>>
          \/ productForm.price[1] = "-"
          \/ \A i \in 1..Len(productForm.price) : productForm.price[i] = "0"
          \/ Len(productForm.price) > 6

\* a product priced 999999 was written and saved; the form was then
\* submitted with the price 0 and rejected, with no further write
ProductWritesValidWitness ==
    /\ pcProductForm = "rejected"
    /\ productForm.textsOk
    /\ productForm.price = <<"0">>
    /\ Len(productWrites) = 1
    /\ productWrites[1].price = Num(999999)
    /\ productSaved = 1

\* ---------------------------------------------- claims: calculateDistance
\* C17: a shop at the buyer's own coordinate is stored with distance 0
SelfDistanceIsZero ==
    (Ranked /\ userLocation # Null) =>
        \A j \in 1..Len(shops) :
            (/\ shops[j].latitude = userLocation.lat
             /\ shops[j].longitude = userLocation.lng) =>
                shops[j].distance = 0

\* a buyer off the equator and off the prime meridian, with a shop at the
\* same coordinate stored first and a shop elsewhere stored after it
SelfDistanceIsZeroWitness ==
    /\ Ranked
    /\ userLocation # Null
    /\ userLocation.lat # 0
    /\ userLocation.lng # 0
    /\ Len(shops) = 2
    /\ shops[1].id = 2
    /\ shops[1].latitude = userLocation.lat
    /\ shops[1].longitude = userLocation.lng
    /\ shops[1].distance = 0
    /\ shops[2].distance > 0

NearestFirstOnceLocated ==
    (userLocation # Null /\ ~shopsLoading) =>
        /\ \A j \in 1..Len(shops) : "distance" \in DOMAIN shops[j]
        /\ \A j \in 1..(Len(shops) - 1) :
              shops[j].distance <= shops[j + 1].distance

\* ------------------------------------------------ claims: product images
\* C20: a statement that updated or deleted an image was run by the seller
\* who uploaded that image
OnlyOwnImages ==
    (/\ storageOp # Null
     /\ storageOp.op \in {"update", "delete"}
     /\ storageOp.done) =>
        /\ HasSellerProfile(storageOp.by)
        /\ storageOp.by = storageOp.owner

\* --------------------------------------------------- claims: products RLS
\* C21: every insert, update or delete of a products row that took effect
\* was issued by the user who is the seller_id of the shop the row belongs
\* to, before and after the statement.
OnlyOwnProducts ==
    (productsOp # Null /\ productsOp.done) =>
        /\ SignedIn(productsOp.by)
        /\ productsOp.sellers = {productsOp.by}

\* a seller has moved a product of theirs while another seller has a shop
OnlyOwnProductsWitness ==
    /\ productsOp # Null
    /\ productsOp.done
    /\ productsOp.op = "update"
    /\ Cardinality(shopsTable) = 2

\* ---------------------------------------------------- claims: AuthProvider
\* userRole is set only while user is set
RoleImpliesUser == userRole # None => ctxUser # None

\* with nobody signed in and no session arriving, user, session and
\* userRole stay null
SignedOutStays ==
    (/\ pcGetSession = "done"
     /\ authStore = Null
     /\ authStore' = Null
     /\ ctxUser = None
     /\ ctxSession = Null
     /\ userRole = None)
    => (ctxUser' = None /\ ctxSession' = Null /\ userRole' = None)

\* C22: in every reachable state userRole is non-null only if user is
\* non-null, whatever the interleaving of signOut with pending role lookups,
\* and once signOut has completed user, session and userRole remain null
\* until a new session arrives.
RoleOnlyWhileSignedIn == [](RoleImpliesUser) /\ [][SignedOutStays]_vars

\* the dashboard of a role
DashboardOf(role) == IF role = "buyer" THEN "/buyer" ELSE "/seller"

\* handleSignUp has succeeded for the account that is still signed in, and
\* AuthProvider has no role lookup left to resolve
SignUpSettled ==
    /\ signUp.at = "done"
    /\ authStore = [user |-> "u2"]
    /\ ctxUser = "u2"
    /\ pcSignOut = "idle"
    /\ pcGetSession = "done"
    /\ lookups = <<>>

\* C23: after handleSignUp has succeeded, userRole comes to equal the chosen
\* role and the Auth page navigates to the dashboard of that role, for every
\* interleaving of the role lookup with the profile insert: once the sign-up
\* has succeeded and no lookup is left, both have happened.
SignUpReachesDashboard ==
    SignUpSettled =>
        (userRole = signUp.role /\ route = DashboardOf(signUp.role))

\* ------------------------------------------- claims: ReviewForm, ShopCard
\* handleSubmit of ReviewForm has ended for a buyer who had a review already
Resubmitted == pcReview.at = "idle" /\ reviewDone # Null /\ reviewDone.had

\* C24: a buyer who has already reviewed the shop can submit ReviewForm
\* again: the submission succeeds, and afterwards the table holds exactly
\* one row for the (shop_id, buyer_id) pair, with the rating and comment
\* just submitted.
ResubmitReplacesReview ==
    Resubmitted =>
        /\ reviewDone.toast = "Review submitted successfully!"
        /\ Cardinality(RowsOf("b1")) = 1
        /\ \A row \in RowsOf("b1") :
              /\ row.rating = reviewDone.values.rating
              /\ row.comment = reviewDone.values.comment

\* averageRating and reviewCount are the mean and the size of one
\* collection of ratings
PairDescribesOneSet ==
    IF reviewCount = 0
    THEN averageRating = Quotient(0, 1)
    ELSE \E sum \in reviewCount..(MaxRating * reviewCount) :
            averageRating = Quotient(sum, reviewCount)

\* ReviewForm has reported a saved review and no fetchReviews call is left
SaveShownSettled ==
    /\ pcReview.at = "idle"
    /\ reviewDone # Null
    /\ reviewDone.toast = "Review submitted successfully!"
    /\ ratingFetches = <<>>

\* C27: after ReviewForm reports a saved review, averageRating and
\* reviewCount come to equal the mean and the number of the shop's ratings
\* as stored at or after the save, whatever order the responses of
\* overlapping fetchReviews calls arrive in, and in every state the two
\* describe the same set of fetched ratings.
RatingFollowsSave ==
    /\ PairDescribesOneSet
    /\ SaveShownSettled =>
          [averageRating |-> averageRating, reviewCount |-> reviewCount]
              \in sinceSave

\* -------------------------------- claims: SellerDashboard and ProductList
\* the Add Product dialog has saved a product that still exists, and
\* ProductList has no fetchProducts call left
AddSettled ==
    /\ lastAdded # 0
    /\ pcAddProduct.at = "idle"
    /\ listFetches = <<>>
    /\ \E row \in sellerProducts : row.id = lastAdded

\* the products ProductList shows include the product added last
AddedIsListed == \E k \in 1..Len(listProducts) : listProducts[k].id = lastAdded

\* the step in which handleSubmit reports the added product closes the dialog
AddClosesDialog ==
    (pcAddProduct.at = "inserted" /\ pcAddProduct'.at = "idle")
        => ~productDialogOpen'

\* C25: after a product is added through the Add Product dialog, the dialog
\* closes and the products ProductList shows come to include the new
\* product without a reload: once the add is reported and ProductList has
\* no fetch left, the product is listed.
AddedProductShown == [](AddSettled => AddedIsListed) /\ [][AddClosesDialog]_vars

\* ---------------------------------------- claims: ProductForm image upload
\* the step keeps what the seller entered in the four text and select fields
KeepsEnteredFields ==
    /\ uploadForm'.name = uploadForm.name
    /\ uploadForm'.category = uploadForm.category
    /\ uploadForm'.price = uploadForm.price
    /\ uploadForm'.quantity_unit = uploadForm.quantity_unit

\* a step that completes an upload changes no field but image_url and
\* imagePreview; a step that refuses a large file or ends a failed upload
\* changes no field
UploadFrame ==
    /\ uploadEvent' = "uploaded" => KeepsEnteredFields
    /\ uploadEvent' \in {"tooLarge", "failed"} =>
          UNCHANGED <<uploadForm, imagePreview>>

\* C26: completing an image upload changes only image_url and imagePreview:
\* name, category, price and quantity_unit keep the values last entered,
\* edits made while the upload was in flight included; a file over 5 MB or
\* a failed upload changes no form field.
UploadChangesOnlyImage == [][UploadFrame]_vars

\* ------------------------------------- claims: ShopForm current location
\* C28: every invocation of getCurrentLocation sets locationLoading back to
\* false in the end, whether the position is obtained, the lookup fails or
\* the geolocation capability is unavailable, so the button does not stay
\* disabled: once no position request is outstanding, locationLoading is
\* false.
LocationLoadingEnds == ~positionPending => ~locationLoading

\* ------------------------------------- claims: aggregation and input order
\* the lists that hold the rows of ps in another order
PermutationsOf(ps) ==
    {[i \in 1..Len(ps) |-> ps[f[i]]] :
        f \in {g \in [1..Len(ps) -> 1..Len(ps)] :
                  \A i, j \in 1..Len(ps) : g[i] = g[j] => i = j}}

\* the place in ps of the first product of the group of an output entry
FirstOf(entry, ps) ==
    SetMin({k \in 1..Len(ps) :
               /\ Capitalize(normalizeProductName(ps[k].name)) = entry.name
               /\ ps[k].category = entry.category})

\* groups of one display name stand in the order in which their first
\* products stand in ps
TiesFollowInput(out, ps) ==
    \A i, j \in 1..Len(out) :
        (i < j /\ out[i].name = out[j].name)
            => FirstOf(out[i], ps) < FirstOf(out[j], ps)

\* the original statement of C29: for every list of products and every
\* permutation of it the output sequence is identical, the relative order
\* of groups that share a display name included
OrderIndependent ==
    Aggregated => \A q \in PermutationsOf(products) : Averages(q) = averagePrices

\* C29: for every list of products and every permutation of it, the output
\* holds the same (name, category, avgPrice, shopCount) entries with the
\* same display name at every position; only groups that share a display
\* name but differ in category may change places, and they stand in the
\* order of their first products in the list aggregated.
OrderIndependentUpToTies ==
    Aggregated =>
        \A q \in PermutationsOf(products) :
            LET out == Averages(q) IN
            /\ Len(out) = Len(averagePrices)
            /\ {out[i] : i \in 1..Len(out)} =
                   {averagePrices[i] : i \in 1..Len(averagePrices)}
            /\ \A i \in 1..Len(out) : out[i].name = averagePrices[i].name
            /\ TiesFollowInput(out, q)

\* a list was aggregated in which two groups share a display name, and
\* another order of the list gives another output
OrderIndependentUpToTiesWitness ==
    /\ Aggregated
    /\ Len(averagePrices) = 2
    /\ averagePrices[1].name = averagePrices[2].name
    /\ averagePrices[1].category # averagePrices[2].category
    /\ \E q \in PermutationsOf(products) : Averages(q) # averagePrices

====
